---- MODULE Spec2Model ----
(***************************************************************************)
(* Halmos-CI: the API server (api_server.py), the creation-code cache and  *)
(* the two resolution services (batch_test.py, batch_test_node.py,         *)
(* use_rpc_get_creation.py).                                               *)
(*                                                                         *)
(* Text is modelled as a sequence of one-character strings; a few fixed    *)
(* literals of the source are kept as one token ("Test", "_test.t.sol").   *)
(* Python's None is the empty tuple and a present value v is <<v>>.        *)
(***************************************************************************)
EXTENDS Integers, Sequences, FiniteSets, TLC

VARIABLES
    files,      \* TEST_DIR: file name -> content, DOMAIN = the files that exist
    mat,        \* one call of create_test_file_with_id: its arguments and result
    ext,        \* one call of format_halmos_output: its argument and result
    db,         \* creation_codes table: <<address, chain_id>> -> creation_code
    cache,      \* the last save to the table and the lookup made after it
    res,        \* the calls of the resolution services, one per process
    clock,      \* int(time.time()) of the API server's host
    req,        \* the /test request each server process is handling
    bat         \* the run of a batch driver

vars == <<files, mat, ext, db, cache, res, clock, req, bat>>

None == <<>>
Some(v) == <<v>>

RECURSIVE SeqsUpTo(_, _)
\* every sequence over alphabet of length at most n
SeqsUpTo(alphabet, n) ==
    IF n = 0 THEN {<<>>}
    ELSE LET shorter == SeqsUpTo(alphabet, n - 1)
         IN  shorter \cup {Append(s, c) : s \in {t \in shorter : Len(t) = n - 1}, c \in alphabet}

Min(S) == CHOOSE x \in S : \A y \in S : x <= y

(***************************************************************************)
(* Bounds of the model.                                                    *)
(***************************************************************************)
MaxIdLen == 2
MaxPayloadLen == 3
MaxLogLen == 4
MaxItems == 1
MaxClock == 1
MaxTargets == 2
MaxEscLen == 7

(***************************************************************************)
(* Characters.                                                             *)
(***************************************************************************)
Digits == {"0", "1", "2", "3", "4", "5", "6", "7", "8", "9"}
HexDigits == Digits \cup {"a", "b", "c", "d", "e", "f", "A", "B", "C", "D", "E", "F"}
\* \w of the regular expressions, as far as the model's names go
WordChars == HexDigits \cup {"o", "U", "n", "i", "_"}
\* what str.strip() removes at both ends
Whitespace == {" ", "\n", "\t"}

(***************************************************************************)
(* The file system under TEST_DIR.                                         *)
(***************************************************************************)
Exists(fs, p) == p \in DOMAIN fs
WriteText(fs, p, c) == [q \in DOMAIN fs \cup {p} |-> IF q = p THEN c ELSE fs[q]]
Unlink(fs, p) == [q \in DOMAIN fs \ {p} |-> fs[q]]

\* A source file is a sequence of lines; a line is
\*   [k |-> "contract", v |-> name]  for  contract <name> is
\*   [k |-> "deploy",   v |-> hex]   for  bytes memory deploycode = hex"<hex>";
\*   [k |-> "other",    v |-> <<>>]  for anything else.
ContractLine(name) == [k |-> "contract", v |-> name]
DeployLine(hex) == [k |-> "deploy", v |-> hex]
OtherLine == [k |-> "other", v |-> <<>>]

SUFFIX == "_test.t.sol"

\* api_server.py:47  TEST_DIR / f"{test_case}_test.t.sol"
TemplatePath(test_case) == test_case \o <<SUFFIX>>

\* api_server.py:105  TEST_DIR / f"C{test_id}_test.t.sol"
InstancePathShared(test_id) == <<"C", SUFFIX>>
InstancePath(test_id) == <<"C">> \o test_id \o <<SUFFIX>>

\* api_server.py:78  f"Test{test_id}"
NewContractName(test_id) == <<"Test">> \o test_id

\* api_server.py:45-50  None stands for FileNotFoundError
get_test_file_path(fs, test_case) ==
    IF Exists(fs, TemplatePath(test_case)) THEN Some(TemplatePath(test_case)) ELSE None

\* the regular expression  contract\s+(Test\w+)\s+is  on one line
MatchesTestDecl(line) ==
    /\ line.k = "contract"
    /\ Len(line.v) >= 2
    /\ line.v[1] = "Test"
    /\ \A i \in 2..Len(line.v) : line.v[i] \in WordChars

\* api_server.py:53-60  re.search returns the first match; None stands for ValueError
extract_test_contract_name(content) ==
    LET hits == {i \in 1..Len(content) : MatchesTestDecl(content[i])}
    IN  IF hits = {} THEN None ELSE Some(content[Min(hits)].v)

RECURSIVE ExpandFrom(_, _)
\* re.sub reads its replacement string as a template: a backslash starts an
\* escape. From position i of test_id inside f'contract Test{test_id} is':
\* two backslashes give one, a backslash before a digit is a group reference
\* (the pattern has no group: re.error), and a backslash before the blank of
\* " is" stays as it is. The result is <<ok, text>>.
ExpandFrom(s, i) ==
    IF i > Len(s) THEN <<TRUE, <<>>>>
    ELSE IF s[i] # "\\"
         THEN LET rest == ExpandFrom(s, i + 1) IN <<rest[1], <<s[i]>> \o rest[2]>>
    ELSE IF i = Len(s) THEN <<TRUE, <<"\\">>>>
    ELSE IF s[i + 1] = "\\"
         THEN LET rest == ExpandFrom(s, i + 2) IN <<rest[1], <<"\\">> \o rest[2]>>
    ELSE IF s[i + 1] \in Digits THEN <<FALSE, <<>>>>
    ELSE LET rest == ExpandFrom(s, i + 2) IN <<rest[1], <<"\\", s[i + 1]>> \o rest[2]>>

\* the name that f'contract {new_contract_name} is' leaves in the text
ExpandTemplate(name) == ExpandFrom(name, 1)

\* api_server.py:81-85  every declaration of the original name is renamed
RenameContract(content, original, written) ==
    [i \in 1..Len(content) |->
        IF content[i].k = "contract" /\ content[i].v = original
        THEN ContractLine(written) ELSE content[i]]

RECURSIVE LStrip(_)
LStrip(s) == IF s # <<>> /\ Head(s) \in Whitespace THEN LStrip(Tail(s)) ELSE s
RECURSIVE RStrip(_)
RStrip(s) == IF s # <<>> /\ s[Len(s)] \in Whitespace THEN RStrip(SubSeq(s, 1, Len(s) - 1)) ELSE s
\* str.strip()
Strip(s) == RStrip(LStrip(s))

StartsWith(s, a, b) == Len(s) >= 2 /\ s[1] = a /\ s[2] = b

IsBlankOrNewline(c) == c \in {" ", "\n"}
IsKept(c) == ~IsBlankOrNewline(c)

\* api_server.py:88-91
CleanDeploycode(deploycode) ==
    LET stripped == Strip(deploycode)
        unprefixed == IF StartsWith(stripped, "0", "x")
                      THEN SubSeq(stripped, 3, Len(stripped)) ELSE stripped
    IN  SelectSeq(unprefixed, IsKept)

\* api_server.py:93  re.match(r'^[0-9a-fA-F]*$', ...)
IsHexString(s) == \A i \in 1..Len(s) : s[i] \in HexDigits

\* api_server.py:96-99  the placeholder  bytes memory deploycode = hex"";
HasPlaceholder(content) == \E i \in 1..Len(content) : content[i] = DeployLine(<<>>)

\* api_server.py:102  every placeholder is replaced
FillPlaceholder(content, hex) ==
    [i \in 1..Len(content) |-> IF content[i] = DeployLine(<<>>) THEN DeployLine(hex) ELSE content[i]]

Failure(fs, err) == [err |-> err, fs |-> fs, path |-> None, name |-> None]

\* api_server.py:104-108  the write and the return of create_test_file_with_id
WriteInstance(fs, content, test_id) ==
    [err |-> "ok",
     fs |-> WriteText(fs, InstancePath(test_id), content),
     path |-> Some(InstancePath(test_id)),
     name |-> Some(NewContractName(test_id))]

\* api_server.py:87-108  steps 6 and 7 on the renamed content
InjectAndWrite(fs, content, test_id, deploycode) ==
    LET clean == CleanDeploycode(deploycode)
    IN  IF ~IsHexString(clean) THEN Failure(fs, "MalformedPayload")
        ELSE IF ~HasPlaceholder(content) THEN Failure(fs, "PlaceholderMissing")
        ELSE WriteInstance(fs, FillPlaceholder(content, clean), test_id)

\* api_server.py:63-108
create_test_file_with_id(fs, test_case, test_id, deploycode) ==
    LET original_file == get_test_file_path(fs, test_case)
    IN  IF original_file = None THEN Failure(fs, "TemplateNotFound")
        ELSE
        LET content == fs[original_file[1]]
            original == extract_test_contract_name(content)
        IN  IF original = None THEN Failure(fs, "ContractNameMissing")
            ELSE
            LET written == ExpandTemplate(NewContractName(test_id))
            IN  IF ~written[1] THEN Failure(fs, "RegexError")
                ELSE InjectAndWrite(fs, RenameContract(content, original[1], written[2]),
                                    test_id, deploycode)

(***************************************************************************)
(* The output extractor, api_server.py:111-155.                            *)
(***************************************************************************)
START_MARKER == "[console.log]"
END_MARKER == "Symbolic test result"
ESC == "ESC"

RECURSIVE SplitLines(_)
\* output.split('\n')
SplitLines(s) ==
    LET cuts == {i \in 1..Len(s) : s[i] = "\n"}
    IN  IF cuts = {} THEN <<s>>
        ELSE <<SubSeq(s, 1, Min(cuts) - 1)>> \o SplitLines(SubSeq(s, Min(cuts) + 1, Len(s)))

RECURSIVE JoinLines(_)
\* '\n'.join(result_lines)
JoinLines(lines) ==
    IF lines = <<>> THEN <<>>
    ELSE IF Len(lines) = 1 THEN lines[1]
    ELSE lines[1] \o <<"\n">> \o JoinLines(Tail(lines))

\* marker in line
Contains(line, marker) == \E i \in 1..Len(line) : line[i] = marker

RECURSIVE FirstLineFrom(_, _, _)
\* the for loops of lines 119-122 and 130-133: the index of the first line at
\* or after i that contains the marker, 0 when the loop ends without a break
FirstLineFrom(lines, marker, i) ==
    IF i > Len(lines) THEN 0
    ELSE IF Contains(lines[i], marker) THEN i
    ELSE FirstLineFrom(lines, marker, i + 1)

\* a slip: end_idx = i, which leaves the end-marker line out
EndIndexExclusive(lines, start_idx) ==
    LET i == FirstLineFrom(lines, END_MARKER, start_idx)
    IN  IF i = 0 THEN None ELSE Some(i)

\* api_server.py:130-133  end_idx = i + 1, the slice end of lines[start_idx:end_idx]
EndIndex(lines, start_idx) ==
    LET i == FirstLineFrom(lines, END_MARKER, start_idx)
    IN  IF i = 0 THEN None ELSE Some(i + 1)

\* api_server.py:117-140  result_lines; start_idx counts from 1 here
SelectLines(lines) ==
    LET start_idx == FirstLineFrom(lines, START_MARKER, 1)
    IN  IF start_idx = 0 THEN <<>>
        ELSE LET end_idx == EndIndex(lines, start_idx)
             IN  IF end_idx = None THEN SubSeq(lines, start_idx, Len(lines))
                 ELSE SubSeq(lines, start_idx, end_idx[1] - 1)

RECURSIVE AnsiEnd(_, _)
\* s[i] follows ESC '[' and a run of [0-9;]: the position of the closing 'm',
\* 0 when the run ends in anything else
AnsiEnd(s, i) ==
    IF i > Len(s) THEN 0
    ELSE IF s[i] = "m" THEN i
    ELSE IF s[i] \in Digits \cup {";"} THEN AnsiEnd(s, i + 1)
    ELSE 0

RECURSIVE StripAnsiFrom(_, _)
\* api_server.py:147-148  one left-to-right pass of ansi_escape.sub('', result)
StripAnsiFrom(s, i) ==
    IF i > Len(s) THEN <<>>
    ELSE IF s[i] = ESC /\ i < Len(s) /\ s[i + 1] = "[" /\ AnsiEnd(s, i + 2) # 0
         THEN StripAnsiFrom(s, AnsiEnd(s, i + 2) + 1)
    ELSE <<s[i]>> \o StripAnsiFrom(s, i + 1)

RECURSIVE NormalizeNewlines(_)
\* api_server.py:151  replace('\r\n', '\n') and then replace('\r', '\n')
NormalizeNewlines(s) ==
    IF s = <<>> THEN <<>>
    ELSE IF Head(s) = "\r" /\ Len(s) >= 2 /\ s[2] = "\n" THEN <<"\n">> \o NormalizeNewlines(SubSeq(s, 3, Len(s)))
    ELSE IF Head(s) = "\r" THEN <<"\n">> \o NormalizeNewlines(Tail(s))
    ELSE <<Head(s)>> \o NormalizeNewlines(Tail(s))

RECURSIVE RStripNewlines(_)
\* api_server.py:153  result.rstrip('\n')
RStripNewlines(s) ==
    IF s # <<>> /\ s[Len(s)] = "\n" THEN RStripNewlines(SubSeq(s, 1, Len(s) - 1)) ELSE s

\* api_server.py:143-153
Sanitize(result_lines) == RStripNewlines(NormalizeNewlines(StripAnsiFrom(JoinLines(result_lines), 1)))

\* api_server.py:111-155
format_halmos_output(output) == Sanitize(SelectLines(SplitLines(output)))

(***************************************************************************)
(* The execution orchestrator, api_server.py:158-240, and the /test        *)
(* endpoint, api_server.py:243-319.                                        *)
(***************************************************************************)
\* needle in hay, for two texts
IsInfix(needle, hay) ==
    \E i \in 0..(Len(hay) - Len(needle)) : SubSeq(hay, i + 1, i + Len(needle)) = needle

\* the tuple run_halmos returns
HalmosResult(success, message, output) ==
    [success |-> success, message |-> message, output |-> output]

\* api_server.py:189-194  whether the build's failure ends the run
BuildIsFatalAlways(test_file, build) == build.rc # 0
BuildIsFatalNever(test_file, build) == FALSE
BuildIsFatal(test_file, build) == build.rc # 0 /\ IsInfix(test_file, build.stderr)

AfterBuildIgnoringTimeout(test_file, build) ==
    IF build.kind = "exit" /\ build.rc # 0 /\ IsInfix(test_file, build.stderr)
    THEN Some(HalmosResult(FALSE, "build_failed", Some(build.stdout \o build.stderr)))
    ELSE None

\* api_server.py:176-194, 235-240  the build phase: None when the run goes on
\* to halmos, the tuple returned otherwise
AfterBuild(test_file, build) ==
    IF build.kind = "no_workdir" THEN Some(HalmosResult(FALSE, "no_workdir", None))
    ELSE IF build.kind = "timeout" THEN Some(HalmosResult(FALSE, "timeout", None))
    ELSE IF build.kind = "not_found" THEN Some(HalmosResult(FALSE, "tool_not_found", None))
    ELSE IF build.kind = "error" THEN Some(HalmosResult(FALSE, "error", None))
    ELSE IF BuildIsFatal(test_file, build)
         THEN Some(HalmosResult(FALSE, "build_failed", Some(build.stdout \o build.stderr)))
    ELSE None

AfterAnalyzePassing(run) ==
    HalmosResult(TRUE, "passed", Some(format_halmos_output(run.stdout \o run.stderr)))

\* api_server.py:213-240  the analyze phase
AfterAnalyze(run) ==
    IF run.kind = "timeout" THEN HalmosResult(FALSE, "timeout", None)
    ELSE IF run.kind = "not_found" THEN HalmosResult(FALSE, "tool_not_found", None)
    ELSE IF run.kind = "error" THEN HalmosResult(FALSE, "error", None)
    ELSE IF run.rc = 0
         THEN HalmosResult(TRUE, "passed", Some(format_halmos_output(run.stdout \o run.stderr)))
    ELSE HalmosResult(FALSE, "analysis_failed", Some(format_halmos_output(run.stdout \o run.stderr)))

\* api_server.py:290-295  TestResponse(...), sent with status 200
TestResponse(r) ==
    [status |-> 200, success |-> r.success, message |-> r.message, output |-> r.output,
     error |-> IF r.success THEN None ELSE r.output]

\* api_server.py:297-302  the HTTPException of each kind of failure
ErrorStatus(err) ==
    IF err = "TemplateNotFound" THEN 404
    ELSE IF err \in {"ContractNameMissing", "MalformedPayload", "PlaceholderMissing"} THEN 400
    ELSE 500

HTTPException(err) ==
    [status |-> ErrorStatus(err), success |-> FALSE, message |-> err, output |-> None, error |-> None]

DigitOf(n) == CASE n = 0 -> "0" [] n = 1 -> "1" [] n = 2 -> "2" [] n = 3 -> "3" [] OTHER -> "9"

\* a slip: the generated identifier holds the time alone
RunTestIdOfTime(given, now, pid) == IF given = None THEN <<DigitOf(now), "_">> ELSE given[1]

\* api_server.py:259-265  f"{int(time.time())}_{os.getpid()}" unless given
RunTestId(given, now, pid) == IF given = None THEN <<DigitOf(now), "_", DigitOf(pid)>> ELSE given[1]

(***************************************************************************)
(* The creation-code cache, batch_test.py:57-108 and                       *)
(* batch_test_node.py:69-120 (the same code in both).                      *)
(***************************************************************************)
LowerChar(c) ==
    CASE c = "A" -> "a" [] c = "B" -> "b" [] c = "C" -> "c" [] c = "D" -> "d"
      [] c = "E" -> "e" [] c = "F" -> "f" [] c = "X" -> "x" [] OTHER -> c

\* str.lower()
Lower(s) == [i \in 1..Len(s) |-> LowerChar(s[i])]

\* the key of the row: address_lower and chain_id
RowKey(contract_address, chain_id) == <<Lower(contract_address), chain_id>>

\* get_creation_code_from_db: the row's creation_code, None when there is no row
get_creation_code_from_db(table, contract_address, chain_id) ==
    IF RowKey(contract_address, chain_id) \in DOMAIN table
    THEN Some(table[RowKey(contract_address, chain_id)]) ELSE None

\* a slip: the row is keyed by the address as given
SaveUnderGivenCase(table, contract_address, chain_id, creation_code) ==
    [k \in DOMAIN table \cup {<<contract_address, chain_id>>} |->
        IF k = <<contract_address, chain_id>> THEN creation_code ELSE table[k]]

\* a slip: INSERT OR IGNORE, an existing row keeps its value
SaveIfNew(table, contract_address, chain_id, creation_code) ==
    [k \in DOMAIN table \cup {RowKey(contract_address, chain_id)} |->
        IF k \in DOMAIN table THEN table[k] ELSE creation_code]

\* a slip: the new value is appended to the one the row holds
SaveAppending(table, contract_address, chain_id, creation_code) ==
    [k \in DOMAIN table \cup {RowKey(contract_address, chain_id)} |->
        IF k # RowKey(contract_address, chain_id) THEN table[k]
        ELSE IF k \in DOMAIN table THEN table[k] \o creation_code ELSE creation_code]

\* save_creation_code_to_db: INSERT OR REPLACE on the primary key
save_creation_code_to_db(table, contract_address, chain_id, creation_code) ==
    [k \in DOMAIN table \cup {RowKey(contract_address, chain_id)} |->
        IF k = RowKey(contract_address, chain_id) THEN creation_code ELSE table[k]]

\* Python's truth value of an Optional[str]
Truthy(opt) == opt # None /\ opt[1] # <<>>

(***************************************************************************)
(* The explorer-batch resolver, batch_test.py:151-296.                     *)
(***************************************************************************)
MAX_EXPLORER_RETRIES == 10

\* batch_test.py:199-200  a leading 0x or 0X is cut off
StripPrefix(creation_code) ==
    IF StartsWith(creation_code, "0", "x") \/ StartsWith(creation_code, "0", "X")
    THEN SubSeq(creation_code, 3, Len(creation_code)) ELSE creation_code

\* the null of JSON, which json() turns into None
JSON_NULL == <<"null">>

\* a slip: an item without creation code is taken like the others
RECURSIVE ProcessItemsKeepingIncomplete(_, _, _, _)
ProcessItemsKeepingIncomplete(items, i, chain_id, acc) ==
    IF i > Len(items) THEN acc
    ELSE IF items[i].contractAddress = JSON_NULL THEN [acc EXCEPT !.raised = "AttributeError"]
    ELSE LET address == Lower(items[i].contractAddress)
             creation_code == items[i].creationBytecode
         IN  IF address # <<>>
             THEN ProcessItemsKeepingIncomplete(items, i + 1, chain_id,
                    [table |-> save_creation_code_to_db(acc.table, address, chain_id,
                                                        StripPrefix(creation_code)),
                     dict |-> [a \in DOMAIN acc.dict \cup {address} |->
                                 IF a = address THEN Some(StripPrefix(creation_code))
                                 ELSE acc.dict[a]],
                     raised |-> ""])
             ELSE ProcessItemsKeepingIncomplete(items, i + 1, chain_id, acc)

RECURSIVE ProcessItems(_, _, _, _)
\* batch_test.py:194-209  the loop over the response's result list: every
\* complete item is put into result_dict and saved. acc is
\* [table |-> the table, dict |-> result_dict]
ProcessItems(items, i, chain_id, acc) ==
    IF i > Len(items) THEN acc
    ELSE IF items[i].contractAddress = JSON_NULL THEN [acc EXCEPT !.raised = "AttributeError"]
    ELSE LET address == Lower(items[i].contractAddress)
             creation_code == items[i].creationBytecode
         IN  IF address # <<>> /\ creation_code # <<>>
             THEN ProcessItems(items, i + 1, chain_id,
                    [table |-> save_creation_code_to_db(acc.table, address, chain_id,
                                                        StripPrefix(creation_code)),
                     dict |-> [a \in DOMAIN acc.dict \cup {address} |->
                                 IF a = address THEN Some(StripPrefix(creation_code))
                                 ELSE acc.dict[a]],
                     raised |-> ""])
             ELSE ProcessItems(items, i + 1, chain_id, acc)

\* batch_test.py:211-215  the requested addresses that were not answered
FillMissing(dict, contract_addresses) ==
    [a \in DOMAIN dict \cup {Lower(contract_addresses[i]) : i \in 1..Len(contract_addresses)} |->
        IF a \in DOMAIN dict THEN dict[a] ELSE None]

\* batch_test.py:240  {addr.lower(): None for addr in contract_addresses}
AllAbsent(contract_addresses) ==
    [a \in {Lower(contract_addresses[i]) : i \in 1..Len(contract_addresses)} |-> None]

\* result_dict.get(key)
DictGet(dict, key) == IF key \in DOMAIN dict THEN dict[key] ELSE None

\* a slip: one attempt short
ExplorerRetriesShort(attempt) == attempt + 1 < MAX_EXPLORER_RETRIES

\* batch_test.py:231, 249, 266, 283  attempt < max_retries
ExplorerRetries(attempt) == attempt < MAX_EXPLORER_RETRIES

(***************************************************************************)
(* The transaction-lookup resolver, use_rpc_get_creation.py:3-27 and       *)
(* batch_test_node.py:123-180.                                             *)
(***************************************************************************)
MAX_NODE_RETRIES == 5
CHAIN_RPC_MAP == {1, 56, 137, 42161, 10}

\* use_rpc_get_creation.py:3-27 on the node's answer: the value returned, or
\* the exception raised
get_creation_code(answer) ==
    IF answer.kind = "error" THEN [raised |-> "RequestError", code |-> <<>>]
    ELSE IF answer.kind = "no_input" THEN [raised |-> "NotAContractDeployment", code |-> <<>>]
    ELSE IF answer.input = <<"0", "x">> THEN [raised |-> "EmptyCreationCode", code |-> <<>>]
    ELSE [raised |-> "", code |-> SubSeq(answer.input, 3, Len(answer.input))]

\* a slip: one attempt short
NodeRetriesShort(attempt) == attempt + 1 < MAX_NODE_RETRIES

\* batch_test_node.py:163, 172  attempt < max_retries
NodeRetries(attempt) == attempt < MAX_NODE_RETRIES

(***************************************************************************)
(* The batch drivers, batch_test.py:355-568 and batch_test_node.py:16.     *)
(***************************************************************************)
RECURSIVE RemoveAll(_, _, _)
\* str.replace(a + b, ""): every occurrence, left to right
RemoveAll(s, a, b) ==
    IF Len(s) < 2 THEN s
    ELSE IF s[1] = a /\ s[2] = b THEN RemoveAll(SubSeq(s, 3, Len(s)), a, b)
    ELSE <<s[1]>> \o RemoveAll(Tail(s), a, b)

\* batch_test.py:426-427  the result file of an address
ResultFileName(contract_address) == RemoveAll(Lower(contract_address), "0", "x") \o <<".txt">>

\* batch_test.py:400-413  format_output
format_output(result) == IF Truthy(result.output) THEN result.output[1] ELSE <<>>

\* batch_test.py:429-455  the sections written to the result file
ResultText(contract_address, result) ==
    <<[section |-> "address", text |-> Some(contract_address), response |-> None],
      [section |-> "response", text |-> None, response |-> Some(result)]>>
    \o (IF format_output(result) # <<>>
        THEN <<[section |-> "output", text |-> Some(format_output(result)), response |-> None]>>
        ELSE <<>>)
    \o (IF Truthy(result.error) /\ result.error[1] # format_output(result)
        THEN <<[section |-> "error", text |-> result.error, response |-> None]>>
        ELSE <<>>)

\* a slip: the creation code is written too
save_result_with_code(records, contract_address, result, creation_code) ==
    [f \in DOMAIN records \cup {ResultFileName(contract_address)} |->
        IF f = ResultFileName(contract_address)
        THEN ResultText(contract_address, result)
             \o <<[section |-> "creation_code", text |-> creation_code, response |-> None]>>
        ELSE records[f]]

\* batch_test.py:416-457  save_result: the file is opened with 'w'; the
\* creation_code argument is not used
save_result(records, contract_address, result, creation_code) ==
    [f \in DOMAIN records \cup {ResultFileName(contract_address)} |->
        IF f = ResultFileName(contract_address)
        THEN ResultText(contract_address, result)
        ELSE records[f]]

\* the dictionaries run_test and batch_test build themselves
ResultDict(success, message, output, error) ==
    [success |-> success, message |-> message, output |-> output, error |-> error]

\* batch_test.py:519-524
UNRESOLVED == ResultDict(FALSE, "unresolved", None, None)

\* batch_test.py:355-397  run_test on what the POST does
run_test(outcome) ==
    IF outcome.kind = "timeout" THEN ResultDict(FALSE, "request_timeout", None, None)
    ELSE IF outcome.kind = "connection" THEN ResultDict(FALSE, "no_connection", None, None)
    ELSE IF outcome.status >= 400 THEN ResultDict(FALSE, "request_failed", None, None)
    ELSE outcome.body

\* batch_test.py:121-148  get_single_contract_creation_code, the retry loop of
\* get_contract_creation_code taken by its end: fetched is the result list of
\* the answer that succeeded, None when all attempts failed
ResolveSingle(table, contract_address, chain_id, fetched) ==
    LET creation_code == get_creation_code_from_db(table, contract_address, chain_id)
    IN  IF Truthy(creation_code) THEN [table |-> table, code |-> creation_code]
        ELSE IF fetched = None THEN [table |-> table, code |-> None]
        ELSE LET done == ProcessItems(fetched[1], 1, chain_id,
                                      [table |-> table, dict |-> <<>>, raised |-> ""])
                 dict == FillMissing(done.dict, <<contract_address>>)
             IN  [table |-> done.table, code |-> DictGet(dict, Lower(contract_address))]

(***************************************************************************)
(* Templates and inputs.                                                   *)
(***************************************************************************)
\* uniswap_callback_test.t.sol: contract TestUni is ... hex"";
ValidTemplate == <<OtherLine, ContractLine(<<"Test", "U", "n", "i">>), DeployLine(<<>>), OtherLine>>
\* a template whose only contract does not start with Test
NoDeclTemplate == <<ContractLine(<<"U", "n", "i">>), DeployLine(<<>>)>>
\* a template without the placeholder line
NoPlaceholderTemplate == <<ContractLine(<<"Test", "U", "n", "i">>), DeployLine(<<"6", "0">>)>>

UNI == <<"u", "n", "i">>
NODECL == <<"n", "o", "d">>
NOPH == <<"n", "o", "p">>
MISSING == <<"m", "i", "s">>

InitFiles ==
    LET names == {TemplatePath(UNI), TemplatePath(NODECL), TemplatePath(NOPH)}
    IN  [p \in names |-> IF p = TemplatePath(UNI) THEN ValidTemplate
                         ELSE IF p = TemplatePath(NODECL) THEN NoDeclTemplate
                         ELSE NoPlaceholderTemplate]

TestCases == {UNI, NODECL, NOPH, MISSING}
IdChars == {"4", "2", "\\"}
TestIds == SeqsUpTo(IdChars, MaxIdLen)
PayloadChars == {"0", "x", "6", "Z", " "}
EXAMPLE_PAYLOAD == <<"0", "x", "6", "0", "8", "0", "6", "0", "4", "0", "5", "2">>
Payloads == SeqsUpTo(PayloadChars, MaxPayloadLen) \cup {EXAMPLE_PAYLOAD, <<"0", "x", "Z", "Z">>}

(***************************************************************************)
(* SpecMat: one call of the materializer on every input.                   *)
(***************************************************************************)
MatIdle == [pc |-> "idle", test_case |-> <<>>, test_id |-> <<>>, deploycode |-> <<>>,
            err |-> "", path |-> None, name |-> None]
ExtIdle == [pc |-> "idle", output |-> <<>>, result_lines |-> <<>>, result |-> <<>>]

CacheIdle == [put |-> None, get |-> None]
ResIdle == [pc |-> "idle", svc |-> "", address |-> <<>>, batch |-> <<>>, chain_id |-> 0,
            attempt |-> 0, requests |-> 0, sleeps |-> 0, failures |-> 0, succeeded |-> FALSE,
            cached |-> None, hit |-> FALSE, answer |-> None, mapping |-> None, result |-> None,
            last_error |-> "", raised |-> ""]
Procs == {1}

Workers == {1, 2}
ReqIdle == [pc |-> "idle", test_case |-> <<>>, given |-> None, test_id |-> <<>>,
            deploycode |-> <<>>, debug |-> FALSE, temp_file |-> None, contract_name |-> None,
            build |-> None, run |-> None, resp |-> None, wrote |-> {}, deleted |-> {},
            calls |-> <<>>]

BatIdle == [pc |-> "idle", driver |-> "", targets |-> <<>>, chain_id |-> 0, idx |-> 0,
            creation_code |-> None, result |-> None, test_id_counter |-> 0,
            success_get_count |-> 0, success_test_count |-> 0,
            records |-> <<>>, log |-> <<>>, codes |-> <<>>, results |-> <<>>, cause |-> "",
            test_ids |-> <<>>]

\* the state of the parts a specification leaves alone
BatQuiet == bat = BatIdle
ApiQuiet == files = InitFiles /\ clock = 0 /\ req = [w \in Workers |-> ReqIdle]
MatQuiet == mat = MatIdle
ExtQuiet == ext = ExtIdle
CacheQuiet == db = <<>> /\ cache = CacheIdle
ResQuiet == res = [p \in Procs |-> ResIdle]

MatInit ==
    /\ files = InitFiles /\ clock = 0 /\ req = [w \in Workers |-> ReqIdle]
    /\ BatQuiet
    /\ ExtQuiet /\ CacheQuiet /\ ResQuiet
    /\ mat \in {[pc |-> "call", test_case |-> tc, test_id |-> id, deploycode |-> p,
                 err |-> "", path |-> None, name |-> None] :
                    tc \in TestCases, id \in TestIds, p \in Payloads}

Materialize ==
    /\ mat.pc = "call"
    /\ LET r == create_test_file_with_id(files, mat.test_case, mat.test_id, mat.deploycode)
       IN  /\ files' = r.fs
           /\ mat' = [mat EXCEPT !.pc = "done", !.err = r.err, !.path = r.path, !.name = r.name]
    /\ UNCHANGED <<ext, db, cache, res, clock, req, bat>>

MatNext == Materialize

SpecMat == MatInit /\ [][MatNext]_vars

(***************************************************************************)
(* SpecPayload: create_test_file_with_id on the valid template under one   *)
(* run identifier, for payloads with every kind of whitespace.             *)
(***************************************************************************)
WidePayloadChars == {"0", "x", "6", "Z", " ", "\t", "\n"}
WidePayloads == SeqsUpTo(WidePayloadChars, MaxPayloadLen)

PayInit ==
    /\ files = InitFiles /\ clock = 0 /\ req = [w \in Workers |-> ReqIdle]
    /\ BatQuiet
    /\ ExtQuiet /\ CacheQuiet /\ ResQuiet
    /\ mat \in {[pc |-> "call", test_case |-> UNI, test_id |-> <<"4">>, deploycode |-> p,
                 err |-> "", path |-> None, name |-> None] : p \in WidePayloads}

SpecPayload == PayInit /\ [][MatNext]_vars

(***************************************************************************)
(* SpecExt: one call of the extractor on every raw log.                    *)
(***************************************************************************)
LogChars == {START_MARKER, END_MARKER, "\n", "\r", ESC, "[", "0", "m", "a"}
RawLogs == SeqsUpTo(LogChars, MaxLogLen)

ExtInit ==
    /\ ApiQuiet /\ MatQuiet /\ CacheQuiet /\ ResQuiet /\ BatQuiet
    /\ ext \in {[pc |-> "call", output |-> log, result_lines |-> <<>>, result |-> <<>>] :
                    log \in RawLogs}

Extract ==
    /\ ext.pc = "call"
    /\ ext' = [ext EXCEPT !.pc = "done",
                          !.result_lines = SelectLines(SplitLines(ext.output)),
                          !.result = format_halmos_output(ext.output)]
    /\ UNCHANGED <<files, mat, db, cache, res, clock, req, bat>>

ExtNext == Extract

SpecExt == ExtInit /\ [][ExtNext]_vars

(***************************************************************************)
(* SpecAnsi: format_halmos_output on longer logs made of the start marker  *)
(* and the characters of escape sequences.                                 *)
(***************************************************************************)
EscChars == {START_MARKER, ESC, "[", "m"}
EscLogs == SeqsUpTo(EscChars, MaxEscLen)

AnsiInit ==
    /\ ApiQuiet /\ MatQuiet /\ CacheQuiet /\ ResQuiet /\ BatQuiet
    /\ ext \in {[pc |-> "call", output |-> log, result_lines |-> <<>>, result |-> <<>>] :
                    log \in EscLogs}

SpecAnsi == AnsiInit /\ [][ExtNext]_vars

(***************************************************************************)
(* SpecCache: saves and lookups on the table, in any order.                *)
(***************************************************************************)
Addresses == {<<"a", "B">>, <<"A", "b">>, <<"c", "d">>}
ChainIds == {1, 99}
CODE_6F == <<"6", "F">>
CODE_AB == <<"a", "b">>
Codes == {CODE_6F, CODE_AB, <<>>}

CacheInit ==
    /\ db = <<>>
    /\ cache = CacheIdle
    /\ ApiQuiet /\ MatQuiet /\ ExtQuiet /\ ResQuiet /\ BatQuiet

Put(address, chain_id, code) ==
    /\ db' = save_creation_code_to_db(db, address, chain_id, code)
    /\ cache' = [put |-> Some([address |-> address, chain_id |-> chain_id, code |-> code,
                                prior |-> get_creation_code_from_db(db, address, chain_id)]),
                 get |-> None]
    /\ UNCHANGED <<files, mat, ext, res, clock, req, bat>>

Get(address, chain_id) ==
    /\ cache' = [cache EXCEPT !.get = Some([address |-> address, chain_id |-> chain_id,
                                             result |-> get_creation_code_from_db(db, address, chain_id)])]
    /\ UNCHANGED <<files, mat, ext, db, res, clock, req, bat>>

CacheNext ==
    \E address \in Addresses, chain_id \in ChainIds :
        \/ \E code \in Codes : Put(address, chain_id, code)
        \/ Get(address, chain_id)

SpecCache == CacheInit /\ [][CacheNext]_vars

(***************************************************************************)
(* SpecResolve: calls of the two resolution services and of the explorer   *)
(* batch resolver, one after the other, against every answer of the remote *)
(* side.                                                                   *)
(***************************************************************************)
AB == <<"a", "B">>
CD == <<"c", "d">>
Targets == {AB, CD}
Batches == {<<AB, CD>>}

\* what a result item of the explorer may hold
ItemAddresses == {<<"A", "b">>, CD, <<>>, JSON_NULL}
ItemCodes == {<<"0", "x", "6", "F">>, <<"0", "X", "a", "b">>, <<"0", "x">>, <<>>}
Items == {[contractAddress |-> a, creationBytecode |-> c] : a \in ItemAddresses, c \in ItemCodes}
ExplorerAnswers ==
    {[kind |-> k, items |-> <<>>] : k \in {"status", "timeout", "request_error", "other_error"}}
        \cup {[kind |-> "ok", items |-> its] : its \in SeqsUpTo(Items, MaxItems)}

\* what eth_getTransactionByHash may answer
NodeInputs == {<<"0", "x", "6", "F">>, <<"0", "x", "a", "b">>, <<"0", "x">>, <<>>}
NodeAnswers ==
    {[kind |-> k, input |-> <<>>] : k \in {"error", "no_input"}}
        \cup {[kind |-> "input", input |-> i] : i \in NodeInputs}

ResInit ==
    /\ db = <<>>
    /\ cache = CacheIdle
    /\ res = [p \in Procs |-> ResIdle]
    /\ ApiQuiet /\ MatQuiet /\ ExtQuiet /\ BatQuiet

Returned(r, result) == [r EXCEPT !.pc = "done", !.result = result]

\* get_single_contract_creation_code(contract_address, ...) is called
CallSingle(p, svc, address, chain_id) ==
    /\ res[p].pc \in {"idle", "done"}
    /\ res' = [res EXCEPT ![p] = [ResIdle EXCEPT !.pc = "check", !.svc = svc,
                                                 !.address = address, !.batch = <<address>>,
                                                 !.chain_id = chain_id]]
    /\ UNCHANGED <<files, mat, ext, db, cache, clock, req, bat>>

\* get_contract_creation_code(contract_addresses, ...) is called
CallBatch(p, batch, chain_id) ==
    /\ res[p].pc \in {"idle", "done"}
    /\ res' = [res EXCEPT ![p] = [ResIdle EXCEPT !.pc = "attempt", !.svc = "batch",
                                                 !.batch = batch, !.chain_id = chain_id,
                                                 !.attempt = 1]]
    /\ UNCHANGED <<files, mat, ext, db, cache, clock, req, bat>>

\* batch_test.py:133-141, batch_test_node.py:135-149: the lookup in the table
\* and, in the node service, of the chain's endpoint
CheckedCache(r, table) ==
    LET creation_code == get_creation_code_from_db(table, r.address, r.chain_id)
        seen == [r EXCEPT !.cached = creation_code]
    IN  IF Truthy(creation_code) THEN Returned([seen EXCEPT !.hit = TRUE], creation_code)
        ELSE IF r.svc = "node" /\ r.chain_id \notin CHAIN_RPC_MAP THEN Returned(seen, None)
        ELSE [seen EXCEPT !.pc = "attempt", !.attempt = 1]

CheckCache(p) ==
    /\ res[p].pc = "check"
    /\ res' = [res EXCEPT ![p] = CheckedCache(res[p], db)]
    /\ UNCHANGED <<files, mat, ext, db, cache, clock, req, bat>>

\* batch_test.py:221-291: a failed attempt sleeps and goes on, the last one
\* returns every address as absent
ExplorerFailed(r) ==
    LET failed == [r EXCEPT !.requests = @ + 1, !.failures = @ + 1]
    IN  IF ExplorerRetries(r.attempt)
        THEN [failed EXCEPT !.sleeps = @ + 1, !.attempt = @ + 1]
        ELSE [Returned(failed, None) EXCEPT !.mapping = Some(AllAbsent(r.batch))]

\* batch_test.py:141-148: what get_single_contract_creation_code hands on
SingleResult(r, dict) == IF r.svc = "explorer" THEN DictGet(dict, Lower(r.address)) ELSE None

\* an exception that leaves the resolver
Raised(r, kind) == [r EXCEPT !.pc = "raised", !.raised = kind, !.requests = @ + 1]

\* a slip: only the exceptions of requests are caught
ExplorerCaughtRequestsOnly(kind) == kind \in {"status", "timeout", "request_error"}

\* batch_test.py:221, 242, 259, 276: the else branch of the status test and
\* the three except clauses, the last of which is except Exception
ExplorerCaught(kind) == kind \in {"status", "timeout", "request_error", "other_error"}

\* batch_test.py:188-220, 276-291: an answer with status "1" and message
\* "OK"; None.lower() at line 195 raises AttributeError, which leaves the
\* rows saved so far and is handled by except Exception
ExplorerAnswered(r, table, answer) ==
    LET done == ProcessItems(answer.items, 1, r.chain_id,
                             [table |-> table, dict |-> <<>>, raised |-> ""])
        dict == FillMissing(done.dict, r.batch)
    IN  [table |-> done.table,
         r |-> IF done.raised = ""
               THEN [Returned(r, SingleResult(r, dict)) EXCEPT
                        !.requests = @ + 1, !.succeeded = TRUE,
                        !.answer = Some(answer.items), !.mapping = Some(dict)]
               ELSE IF ExplorerCaught("other_error")
               THEN [ExplorerFailed(r) EXCEPT !.last_error = done.raised,
                                              !.answer = Some(answer.items)]
               ELSE Raised(r, done.raised)]

\* a slip: only ValueError is caught
NodeCaughtValueError(kind) == kind \in {"NotAContractDeployment", "EmptyCreationCode"}

\* batch_test_node.py:161, 170: except ValueError and except Exception
NodeCaught(kind) == kind \in {"NotAContractDeployment", "EmptyCreationCode", "RequestError"}

\* batch_test.py:182-291: one pass of the retry loop
ExplorerAttempt(p, answer) ==
    /\ res[p].pc = "attempt"
    /\ res[p].svc \in {"explorer", "batch"}
    /\ IF answer.kind = "ok"
       THEN LET out == ExplorerAnswered(res[p], db, answer)
            IN  db' = out.table /\ res' = [res EXCEPT ![p] = out.r]
       ELSE IF ExplorerCaught(answer.kind)
       THEN db' = db /\ res' = [res EXCEPT ![p] =
                                   [ExplorerFailed(res[p]) EXCEPT !.last_error = answer.kind]]
       ELSE db' = db /\ res' = [res EXCEPT ![p] = Raised(res[p], answer.kind)]
    /\ UNCHANGED <<files, mat, ext, cache, clock, req, bat>>

\* batch_test_node.py:161-178: an attempt that raised
NodeFailed(r) ==
    LET failed == [r EXCEPT !.requests = @ + 1, !.failures = @ + 1]
    IN  IF NodeRetries(r.attempt)
        THEN [failed EXCEPT !.sleeps = @ + 1, !.attempt = @ + 1]
        ELSE Returned(failed, None)

\* batch_test_node.py:153, 156, 180: get_creation_code returned an empty
\* string: the for loop goes on at once, and past its end None is returned
NodeEmpty(r) ==
    LET failed == [r EXCEPT !.requests = @ + 1, !.failures = @ + 1]
    IN  IF r.attempt + 1 <= MAX_NODE_RETRIES
        THEN [failed EXCEPT !.attempt = @ + 1]
        ELSE Returned(failed, None)

\* a slip: the value is returned and not saved
NodeFetchedUnsaved(r, table, creation_code) ==
    [table |-> table,
     r |-> [Returned(r, Some(creation_code)) EXCEPT
                !.requests = @ + 1, !.succeeded = TRUE, !.answer = Some(creation_code)]]

\* batch_test_node.py:156-160: the value is saved and returned
NodeFetched(r, table, creation_code) ==
    [table |-> save_creation_code_to_db(table, r.address, r.chain_id, creation_code),
     r |-> [Returned(r, Some(creation_code)) EXCEPT
                !.requests = @ + 1, !.succeeded = TRUE, !.answer = Some(creation_code)]]

\* batch_test_node.py:153-178: one pass of the retry loop
NodeAttempt(p, answer) ==
    /\ res[p].pc = "attempt"
    /\ res[p].svc = "node"
    /\ LET got == get_creation_code(answer)
       IN  IF got.raised # "" /\ NodeCaught(got.raised)
           THEN db' = db /\ res' = [res EXCEPT ![p] =
                                       [NodeFailed(res[p]) EXCEPT !.last_error = got.raised]]
           ELSE IF got.raised # ""
           THEN db' = db /\ res' = [res EXCEPT ![p] = Raised(res[p], got.raised)]
           ELSE IF got.code = <<>>
           THEN db' = db /\ res' = [res EXCEPT ![p] =
                                       [NodeEmpty(res[p]) EXCEPT !.last_error = "EmptyString"]]
           ELSE LET out == NodeFetched(res[p], db, got.code)
                IN  db' = out.table /\ res' = [res EXCEPT ![p] = out.r]
    /\ UNCHANGED <<files, mat, ext, cache, clock, req, bat>>

ResNext ==
    \E p \in Procs :
        \/ \E address \in Targets : CallSingle(p, "explorer", address, 1)
        \/ \E address \in Targets, chain_id \in ChainIds : CallSingle(p, "node", address, chain_id)
        \/ \E batch \in Batches : CallBatch(p, batch, 1)
        \/ CheckCache(p)
        \/ \E answer \in ExplorerAnswers : ExplorerAttempt(p, answer)
        \/ \E answer \in NodeAnswers : NodeAttempt(p, answer)

SpecResolve == ResInit /\ [][ResNext]_vars

(***************************************************************************)
(* SpecRace: two processes that share the database file resolve the same   *)
(* address on the same chain, each once.  A statement of sqlite3 followed  *)
(* by commit is one step: the row is written in one transaction.           *)
(***************************************************************************)
RaceProcs == {1, 2}
RaceAddresses == {AB, <<"A", "b">>}
RaceItems == {[contractAddress |-> <<"A", "b">>, creationBytecode |-> c] :
                 c \in {<<"0", "x", "6", "F">>, <<"0", "x", "a", "b">>}}
RaceExplorerAnswers ==
    {[kind |-> "timeout", items |-> <<>>]} \cup {[kind |-> "ok", items |-> <<it>>] : it \in RaceItems}
RaceNodeAnswers ==
    {[kind |-> "error", input |-> <<>>]}
        \cup {[kind |-> "input", input |-> i] : i \in {<<"0", "x", "6", "F">>, <<"0", "x", "a", "b">>}}

RaceInit ==
    /\ db = <<>>
    /\ cache = CacheIdle
    /\ res = [p \in RaceProcs |-> ResIdle]
    /\ ApiQuiet /\ MatQuiet /\ ExtQuiet /\ BatQuiet

RaceCall(p, svc, address) ==
    /\ res[p].pc = "idle"
    /\ CallSingle(p, svc, address, 1)

RaceNext ==
    \E p \in RaceProcs :
        \/ \E svc \in {"explorer", "node"}, address \in RaceAddresses : RaceCall(p, svc, address)
        \/ CheckCache(p)
        \/ \E answer \in RaceExplorerAnswers : ExplorerAttempt(p, answer)
        \/ \E answer \in RaceNodeAnswers : NodeAttempt(p, answer)

SpecRace == RaceInit /\ [][RaceNext]_vars

(***************************************************************************)
(* The /test endpoint as steps of one server process w.                    *)
(***************************************************************************)
\* a request arrives; api_server.py:244-265
Receive(w, test_case, given, deploycode, debug) ==
    /\ req[w].pc \in {"idle", "done"}
    /\ req' = [req EXCEPT ![w] = [ReqIdle EXCEPT
                  !.pc = "lookup", !.test_case = test_case, !.given = given,
                  !.test_id = RunTestId(given, clock, w),
                  !.deploycode = deploycode, !.debug = debug]]
    /\ UNCHANGED <<files, mat, ext, db, cache, res, clock, bat>>

Failed(r, err) == [r EXCEPT !.pc = "finally", !.resp = Some(HTTPException(err))]

\* api_server.py:267-274  the template is looked up and its contract name read
LookedUp(r, fs) ==
    LET original_file == get_test_file_path(fs, r.test_case)
    IN  IF original_file = None THEN Failed(r, "TemplateNotFound")
        ELSE IF extract_test_contract_name(fs[original_file[1]]) = None
             THEN Failed(r, "ContractNameMissing")
        ELSE [r EXCEPT !.pc = "create"]

Lookup(w) ==
    /\ req[w].pc = "lookup"
    /\ req' = [req EXCEPT ![w] = LookedUp(req[w], files)]
    /\ UNCHANGED <<files, mat, ext, db, cache, res, clock, bat>>

\* api_server.py:276-281  the instance is materialized
Create(w) ==
    /\ req[w].pc = "create"
    /\ LET made == create_test_file_with_id(files, req[w].test_case, req[w].test_id,
                                            req[w].deploycode)
       IN  /\ files' = made.fs
           /\ req' = [req EXCEPT ![w] =
                        IF made.err # "ok" THEN Failed(req[w], made.err)
                        ELSE [req[w] EXCEPT !.pc = "build", !.temp_file = made.path,
                                            !.contract_name = made.name,
                                            !.wrote = @ \cup {made.path[1]}]]
    /\ UNCHANGED <<mat, ext, db, cache, res, clock, bat>>

\* api_server.py:160-196  run_halmos up to the end of the build phase
\* api_server.py:176-187  forge is run unless the working directory is missing
Called(r, build) ==
    IF build.kind = "no_workdir" THEN r ELSE [r EXCEPT !.calls = Append(@, "build")]

\* a slip: a build that failed is run once more
BuiltRetrying(r, build) ==
    LET ended == AfterBuild(r.temp_file[1], build)
        called == Called(r, build)
    IN  IF ended = None THEN [called EXCEPT !.pc = "analyze", !.build = Some(build)]
        ELSE IF Len(called.calls) < 2 THEN called
        ELSE [called EXCEPT !.pc = "finally", !.build = Some(build),
                            !.resp = Some(TestResponse(ended[1]))]

Built(r, build) ==
    LET ended == AfterBuild(r.temp_file[1], build)
        called == Called(r, build)
    IN  IF ended = None THEN [called EXCEPT !.pc = "analyze", !.build = Some(build)]
        ELSE [called EXCEPT !.pc = "finally", !.build = Some(build),
                            !.resp = Some(TestResponse(ended[1]))]

Build(w, build) ==
    /\ req[w].pc = "build"
    /\ req' = [req EXCEPT ![w] = Built(req[w], build)]
    /\ UNCHANGED <<files, mat, ext, db, cache, res, clock, bat>>

\* api_server.py:199-240, 288-295  the analyze phase and the response
Analyze(w, run) ==
    /\ req[w].pc = "analyze"
    /\ req' = [req EXCEPT ![w] = [@ EXCEPT !.pc = "finally", !.run = Some(run),
                                          !.calls = Append(@, "analyze"),
                                          !.resp = Some(TestResponse(AfterAnalyze(run)))]]
    /\ UNCHANGED <<files, mat, ext, db, cache, res, clock, bat>>

DeletesNothing(r, fs) == FALSE

\* api_server.py:305  temp_file and temp_file.exists(), and not debug
Deletes(r, fs) == r.temp_file # None /\ Exists(fs, r.temp_file[1]) /\ ~r.debug

\* api_server.py:303-319  the finally block
Finally(w) ==
    /\ req[w].pc = "finally"
    /\ IF Deletes(req[w], files)
       THEN /\ files' = Unlink(files, req[w].temp_file[1])
            /\ req' = [req EXCEPT ![w] = [@ EXCEPT !.pc = "done",
                                                 !.deleted = @ \cup {req[w].temp_file[1]}]]
       ELSE /\ files' = files
            /\ req' = [req EXCEPT ![w] = [@ EXCEPT !.pc = "done"]]
    /\ UNCHANGED <<mat, ext, db, cache, res, clock, bat>>

\* a second passes
Tick ==
    /\ clock < MaxClock
    /\ clock' = clock + 1
    /\ UNCHANGED <<files, mat, ext, db, cache, res, req, bat>>

\* what forge and halmos may do
Compiled(rc, stderr) == [kind |-> "exit", rc |-> rc, stdout |-> <<"o">>, stderr |-> stderr]
Broke(kind) == [kind |-> kind, rc |-> 0, stdout |-> <<>>, stderr |-> <<>>]
LOG_PASS == <<"a", "\n", START_MARKER, ESC, "[", "0", "m", "\n", END_MARKER, "\n", "a">>
LOG_NONE == <<"a">>

ApiInit ==
    /\ files = InitFiles
    /\ clock = 0
    /\ req = [w \in Workers |-> ReqIdle]
    /\ MatQuiet /\ ExtQuiet /\ CacheQuiet /\ ResQuiet /\ BatQuiet

(***************************************************************************)
(* SpecRun: one server process, every template, every outcome of the two   *)
(* phases.                                                                 *)
(***************************************************************************)
GOOD_PAYLOAD == <<"0", "x", "6", "0">>
BAD_PAYLOAD == <<"0", "x", "Z", "Z">>
ID_1 == <<"1">>
RunIds == {None, Some(ID_1), Some(<<"\\", "1">>)}
\* error texts: empty, naming the template, naming C1_test.t.sol, naming CC1_test.t.sol
RunStderrs == {<<>>, <<"e">> \o TemplatePath(UNI), <<"e">> \o InstancePath(ID_1),
               <<"e", "C">> \o InstancePath(ID_1)}
RunBuilds == {Compiled(rc, e) : rc \in {0, 1}, e \in RunStderrs}
                \cup {Broke(k) : k \in {"no_workdir", "timeout", "not_found", "error"}}
LOG_HEAD == <<"a", "\n", START_MARKER>>
LOG_TAIL == <<"\n", END_MARKER, "\n", "a">>
RunAnalyses == {[kind |-> "exit", rc |-> rc, stdout |-> out, stderr |-> <<>>] :
                    rc \in {0, 1}, out \in {LOG_PASS, LOG_NONE}}
                \cup {[kind |-> "exit", rc |-> rc, stdout |-> LOG_HEAD, stderr |-> LOG_TAIL] :
                    rc \in {0, 1}}
                \cup {Broke(k) : k \in {"timeout", "not_found", "error"}}

RunNext ==
    \/ \E test_case \in TestCases, given \in RunIds,
          deploycode \in {GOOD_PAYLOAD, BAD_PAYLOAD}, debug \in BOOLEAN :
            Receive(1, test_case, given, deploycode, debug)
    \/ Lookup(1)
    \/ Create(1)
    \/ \E build \in RunBuilds : Build(1, build)
    \/ \E run \in RunAnalyses : Analyze(1, run)
    \/ Finally(1)
    \/ Tick

SpecRun == ApiInit /\ [][RunNext]_vars

(***************************************************************************)
(* SpecTemplates: the endpoint of one process in a test directory that     *)
(* also holds a template whose name begins with C, C1_test.t.sol.          *)
(***************************************************************************)
C_ONE == <<"C", "1">>

TemplateFiles ==
    [p \in DOMAIN InitFiles \cup {TemplatePath(C_ONE)} |->
        IF p \in DOMAIN InitFiles THEN InitFiles[p] ELSE ValidTemplate]

TemplatesInit ==
    /\ files = TemplateFiles
    /\ clock = 0
    /\ req = [w \in Workers |-> ReqIdle]
    /\ MatQuiet /\ ExtQuiet /\ CacheQuiet /\ ResQuiet /\ BatQuiet

TemplatesNext ==
    \/ \E test_case \in {UNI, C_ONE}, given \in {None, Some(ID_1)}, debug \in BOOLEAN :
            Receive(1, test_case, given, GOOD_PAYLOAD, debug)
    \/ Lookup(1)
    \/ Create(1)
    \/ \E build \in RunBuilds : Build(1, build)
    \/ \E run \in RunAnalyses : Analyze(1, run)
    \/ Finally(1)
    \/ Tick

SpecTemplates == TemplatesInit /\ [][TemplatesNext]_vars

\* the handler of a request runs on: both subprocess calls return or time
\* out (api_server.py:185, 217), and nothing else in it blocks
RunFairness ==
    /\ WF_vars(Lookup(1))
    /\ WF_vars(Create(1))
    /\ WF_vars(\E build \in RunBuilds : Build(1, build))
    /\ WF_vars(\E run \in RunAnalyses : Analyze(1, run))
    /\ WF_vars(Finally(1))

SpecRunFair == ApiInit /\ [][RunNext]_vars /\ RunFairness

(***************************************************************************)
(* SpecApi: two server processes on the same working tree.                 *)
(***************************************************************************)
ApiIds == {None, Some(ID_1)}
ApiBuilds == {Compiled(0, <<>>)}
ApiAnalyses == {[kind |-> "exit", rc |-> 0, stdout |-> LOG_PASS, stderr |-> <<>>]}

ApiNext ==
    \/ \E w \in Workers :
        \/ \E given \in ApiIds, debug \in BOOLEAN :
              Receive(w, UNI, given, GOOD_PAYLOAD, debug)
        \/ Lookup(w)
        \/ Create(w)
        \/ \E build \in ApiBuilds : Build(w, build)
        \/ \E run \in ApiAnalyses : Analyze(w, run)
        \/ Finally(w)
    \/ Tick

SpecApi == ApiInit /\ [][ApiNext]_vars

(***************************************************************************)
(* SpecBatch: one run of a batch driver.                                   *)
(***************************************************************************)
AB0X == <<"0", "x", "A", "b">>
BatchAddresses == {AB, AB0X, CD}
TargetLists == SeqsUpTo(BatchAddresses, MaxTargets) \ {<<>>}
\* the result list of the explorer's answer for one address
FetchedFor(address) ==
    {None, Some(<<>>),
     Some(<<[contractAddress |-> address, creationBytecode |-> <<"0", "x", "6", "F">>]>>),
     Some(<<[contractAddress |-> address, creationBytecode |-> <<"0", "x">>]>>)}
\* what the POST to /test may do
PostOutcomes ==
    {[kind |-> "response", status |-> 200,
      body |-> ResultDict(TRUE, "passed", Some(<<START_MARKER>>), None)],
     [kind |-> "response", status |-> 200,
      body |-> ResultDict(FALSE, "analysis_failed", Some(<<>>), Some(<<>>))],
     [kind |-> "response", status |-> 400, body |-> ResultDict(FALSE, "", None, None)],
     [kind |-> "timeout", status |-> 0, body |-> ResultDict(FALSE, "", None, None)],
     [kind |-> "connection", status |-> 0, body |-> ResultDict(FALSE, "", None, None)]}

BatInit ==
    /\ bat = BatIdle
    /\ db = <<>> /\ cache = CacheIdle
    /\ ApiQuiet /\ MatQuiet /\ ExtQuiet /\ ResQuiet

\* batch_test.py:472-507  the explorer driver starts on the addresses of the
\* CSV file
BatStart(targets) ==
    /\ bat.pc = "idle"
    /\ bat' = [BatIdle EXCEPT !.pc = "resolve", !.driver = "explorer", !.targets = targets,
                              !.chain_id = 1, !.idx = 1, !.test_id_counter = 1]
    /\ UNCHANGED <<files, mat, ext, db, cache, res, clock, req>>

\* sys.exit(1) before the loop
Exited(cause) == [BatIdle EXCEPT !.pc = "aborted", !.driver = "explorer", !.cause = cause]

\* batch_test.py:111-118, 475-476  ETHERSCAN_API_KEY is not set
BatNoApiKey ==
    /\ bat.pc = "idle"
    /\ bat' = Exited("no_api_key")
    /\ UNCHANGED <<files, mat, ext, db, cache, res, clock, req>>

\* batch_test.py:347-352, 495-499  the CSV file is missing or cannot be read,
\* or holds no address
BatNoAddresses(cause) ==
    /\ bat.pc = "idle"
    /\ bat' = Exited(cause)
    /\ UNCHANGED <<files, mat, ext, db, cache, res, clock, req>>

\* batch_test_node.py:16  import requestsclear: the node driver ends with
\* ModuleNotFoundError while it is loaded
NodeBatStart ==
    /\ bat.pc = "idle"
    /\ bat' = [BatIdle EXCEPT !.pc = "import_error", !.driver = "node",
                              !.cause = "ModuleNotFoundError"]
    /\ UNCHANGED <<files, mat, ext, db, cache, res, clock, req>>

Event(b, step) == [b EXCEPT !.log = Append(@, <<step, b.idx>>)]

\* a slip: the loop starts over at the first address
NextTargetRestarting(b) ==
    IF b.idx < Len(b.targets)
    THEN [b EXCEPT !.pc = "resolve", !.idx = 1, !.creation_code = None, !.result = None]
    ELSE [b EXCEPT !.pc = "done", !.creation_code = None, !.result = None]

\* batch_test.py:509, 531, 559  the for loop goes to the next address
NextTarget(b) ==
    IF b.idx < Len(b.targets)
    THEN [b EXCEPT !.pc = "resolve", !.idx = @ + 1, !.creation_code = None, !.result = None]
    ELSE [b EXCEPT !.pc = "done", !.creation_code = None, !.result = None]

\* a slip: the test is run whatever was resolved
ResolvedAlwaysExecutes(b, code) ==
    [Event(b, "resolve") EXCEPT !.pc = "execute", !.creation_code = code,
                                !.success_get_count = @ + 1]

\* batch_test.py:514-518, 533  the creation code is resolved
Resolved(b, code) ==
    IF code = None THEN [Event(b, "resolve") EXCEPT !.pc = "skip"]
    ELSE [Event(b, "resolve") EXCEPT !.pc = "execute", !.creation_code = code,
                                     !.success_get_count = @ + 1]

BatResolve ==
    /\ bat.pc = "resolve"
    /\ \E fetched \in FetchedFor(Lower(bat.targets[bat.idx])) :
          LET got == ResolveSingle(db, bat.targets[bat.idx], bat.chain_id, fetched)
          IN  /\ db' = got.table
              /\ bat' = Resolved(bat, got.code)
    /\ UNCHANGED <<files, mat, ext, cache, res, clock, req>>

\* batch_test.py:518-531  the failure record of an unresolved address
BatSkip ==
    /\ bat.pc = "skip"
    /\ bat' = NextTarget([Event(bat, "skip") EXCEPT
                             !.records = save_result(@, bat.targets[bat.idx], UNRESOLVED, None),
                             !.codes = Append(@, None),
                             !.results = Append(@, UNRESOLVED)])
    /\ UNCHANGED <<files, mat, ext, db, cache, res, clock, req>>

\* a slip: a failed request ends the driver
ExecutedAborting(b, result) ==
    IF result.message \in {"request_timeout", "no_connection", "request_failed"}
    THEN [Event(b, "execute") EXCEPT !.pc = "aborted"]
    ELSE [Event(b, "execute") EXCEPT
            !.pc = "persist", !.result = Some(result),
            !.success_test_count = IF result.success THEN @ + 1 ELSE @]

\* a slip: every test run is counted as a success
ExecutedCountingAll(b, result) ==
    [Event(b, "execute") EXCEPT
        !.pc = "persist", !.result = Some(result), !.success_test_count = @ + 1]

\* batch_test.py:539-550  the test is run through the API
Executed(b, result) ==
    [Event(b, "execute") EXCEPT
        !.pc = "persist", !.result = Some(result),
        !.success_test_count = IF result.success THEN @ + 1 ELSE @]

\* batch_test.py:540-543  test_id = str(test_id_counter) is passed to run_test
BatExecute(outcome) ==
    /\ bat.pc = "execute"
    /\ bat' = [Executed(bat, run_test(outcome)) EXCEPT
                  !.test_ids = Append(@, bat.test_id_counter)]
    /\ UNCHANGED <<files, mat, ext, db, cache, res, clock, req>>

\* a slip: the counter is left as it is
SameTestId(test_id_counter) == test_id_counter

\* batch_test.py:555  test_id_counter += 1
NextTestId(test_id_counter) == test_id_counter + 1

\* batch_test.py:552-559  the result is saved
BatPersist ==
    /\ bat.pc = "persist"
    /\ bat' = NextTarget([Event(bat, "persist") EXCEPT
                             !.records = save_result(@, bat.targets[bat.idx], bat.result[1],
                                                     bat.creation_code),
                             !.test_id_counter = NextTestId(@),
                             !.codes = Append(@, bat.creation_code),
                             !.results = Append(@, bat.result[1])])
    /\ UNCHANGED <<files, mat, ext, db, cache, res, clock, req>>

BatNext ==
    \/ \E targets \in TargetLists : BatStart(targets)
    \/ NodeBatStart
    \/ BatNoApiKey
    \/ \E cause \in {"csv_not_found", "csv_error", "csv_empty"} : BatNoAddresses(cause)
    \/ BatResolve
    \/ BatSkip
    \/ \E outcome \in PostOutcomes : BatExecute(outcome)
    \/ BatPersist

SpecBatch == BatInit /\ [][BatNext]_vars

\* the loop runs on: the resolver's requests and retries are bounded
\* (batch_test.py:179, 184), the POST has a timeout (batch_test.py:374)
BatFairness ==
    /\ WF_vars(BatResolve)
    /\ WF_vars(BatSkip)
    /\ WF_vars(\E outcome \in PostOutcomes : BatExecute(outcome))
    /\ WF_vars(BatPersist)

SpecBatchFair == BatInit /\ [][BatNext]_vars /\ BatFairness

(***************************************************************************)
(* SpecBatches: two runs of the explorer driver at the same time, both     *)
(* posting to API_URL (batch_test.py:20), the one server process of        *)
(* api_server.py:343-345, which takes one request at a time.  bat holds    *)
(* one record for each run.                                                *)
(***************************************************************************)
Drivers == {1, 2}
SERVER == 1
PairTargetLists == {<<AB>>, <<AB, CD>>}

\* the result list of the explorer's answer for one address
PairFetchedFor(address) ==
    {None, Some(<<[contractAddress |-> address, creationBytecode |-> <<"0", "x", "6", "F">>]>>)}

PairInit ==
    /\ bat = [d \in Drivers |-> BatIdle]
    /\ db = <<>> /\ cache = CacheIdle
    /\ ApiQuiet /\ MatQuiet /\ ExtQuiet /\ ResQuiet

\* batch_test.py:472-507
PairStart(d, targets) ==
    /\ bat[d].pc = "idle"
    /\ bat' = [bat EXCEPT ![d] =
                  [BatIdle EXCEPT !.pc = "resolve", !.driver = "explorer", !.targets = targets,
                                  !.chain_id = 1, !.idx = 1, !.test_id_counter = 1]]
    /\ UNCHANGED <<files, mat, ext, db, cache, res, clock, req>>

\* batch_test.py:514-518, 533
PairResolve(d) ==
    /\ bat[d].pc = "resolve"
    /\ \E fetched \in PairFetchedFor(Lower(bat[d].targets[bat[d].idx])) :
          LET got == ResolveSingle(db, bat[d].targets[bat[d].idx], bat[d].chain_id, fetched)
          IN  /\ db' = got.table
              /\ bat' = [bat EXCEPT ![d] = Resolved(bat[d], got.code)]
    /\ UNCHANGED <<files, mat, ext, cache, res, clock, req>>

\* batch_test.py:518-531
PairSkip(d) ==
    /\ bat[d].pc = "skip"
    /\ bat' = [bat EXCEPT ![d] =
                  NextTarget([Event(bat[d], "skip") EXCEPT
                      !.records = save_result(@, bat[d].targets[bat[d].idx], UNRESOLVED, None),
                      !.codes = Append(@, None),
                      !.results = Append(@, UNRESOLVED)])]
    /\ UNCHANGED <<files, mat, ext, db, cache, res, clock, req>>

\* batch_test.py:540-543, 365-374  the POST with test_id = str(test_id_counter)
\* and the default test case; the server accepts it when it is free
PairPost(d) ==
    /\ bat[d].pc = "execute"
    /\ req[SERVER].pc \in {"idle", "done"}
    /\ \A e \in Drivers : bat[e].pc # "posted"
    /\ bat' = [bat EXCEPT ![d] = [@ EXCEPT !.pc = "posted",
                                           !.test_ids = Append(@, bat[d].test_id_counter)]]
    /\ req' = [req EXCEPT ![SERVER] = [ReqIdle EXCEPT
                  !.pc = "lookup", !.test_case = UNI,
                  !.given = Some(<<DigitOf(bat[d].test_id_counter)>>),
                  !.test_id = RunTestId(Some(<<DigitOf(bat[d].test_id_counter)>>), clock, SERVER),
                  !.deploycode = bat[d].creation_code[1], !.debug = FALSE]]
    /\ UNCHANGED <<files, mat, ext, db, cache, res, clock>>

\* batch_test.py:374-376, 545-550  the response has come
PairAnswered(d) ==
    /\ bat[d].pc = "posted"
    /\ req[SERVER].pc = "done"
    /\ LET resp == req[SERVER].resp[1]
           outcome == [kind |-> "response", status |-> resp.status,
                       body |-> ResultDict(resp.success, resp.message, resp.output, resp.error)]
       IN  bat' = [bat EXCEPT ![d] = Executed([bat[d] EXCEPT !.pc = "execute"], run_test(outcome))]
    /\ UNCHANGED <<files, mat, ext, db, cache, res, clock, req>>

\* batch_test.py:552-559
PairPersist(d) ==
    /\ bat[d].pc = "persist"
    /\ bat' = [bat EXCEPT ![d] =
                  NextTarget([Event(bat[d], "persist") EXCEPT
                      !.records = save_result(@, bat[d].targets[bat[d].idx], bat[d].result[1],
                                              bat[d].creation_code),
                      !.test_id_counter = NextTestId(@),
                      !.codes = Append(@, bat[d].creation_code),
                      !.results = Append(@, bat[d].result[1])])]
    /\ UNCHANGED <<files, mat, ext, db, cache, res, clock, req>>

PairNext ==
    \/ \E d \in Drivers :
          \/ \E targets \in PairTargetLists : PairStart(d, targets)
          \/ PairResolve(d)
          \/ PairSkip(d)
          \/ PairPost(d)
          \/ PairAnswered(d)
          \/ PairPersist(d)
    \/ Lookup(SERVER)
    \/ Create(SERVER)
    \/ \E build \in ApiBuilds : Build(SERVER, build)
    \/ \E run \in ApiAnalyses : Analyze(SERVER, run)
    \/ Finally(SERVER)

SpecBatches == PairInit /\ [][PairNext]_vars

(***************************************************************************)
(* Claims on the materializer (SpecMat).                                   *)
(***************************************************************************)
IsWhitespace(c) == c \in Whitespace
IsNotWhitespace(c) == ~IsWhitespace(c)
\* the payload with its whitespace and then its 0x prefix removed
PayloadHex(payload) ==
    LET dense == SelectSeq(payload, IsNotWhitespace)
    IN  IF StartsWith(dense, "0", "x") THEN SubSeq(dense, 3, Len(dense)) ELSE dense

\* what a successful materialization of the template is to leave in the file
ExpectedLine(line, test_id, payload) ==
    IF MatchesTestDecl(line) THEN ContractLine(NewContractName(test_id))
    ELSE IF line = DeployLine(<<>>) THEN DeployLine(PayloadHex(payload))
    ELSE line

MaterializedAsClaimed ==
    LET template == InitFiles[TemplatePath(mat.test_case)]
        written == files[InstancePath(mat.test_id)]
    IN  /\ mat.name = Some(NewContractName(mat.test_id))
        /\ mat.path = Some(InstancePath(mat.test_id))
        /\ Len(written) = Len(template)
        /\ \A i \in 1..Len(template) :
              written[i] = ExpectedLine(template[i], mat.test_id, mat.deploycode)

\* C2: on success the materializer returns Test<runId> and the file written
\* declares the contract under that name and carries the payload, without
\* its 0x prefix and its whitespace, in the deploycode line.
C2_RenamedAndInjected ==
    (mat.pc = "done" /\ mat.err = "ok") => MaterializedAsClaimed

\* The same for run identifiers that hold no backslash.
C2_HoldsWithoutBackslash ==
    (mat.pc = "done" /\ mat.err = "ok" /\ \A i \in 1..Len(mat.test_id) : mat.test_id[i] # "\\")
        => MaterializedAsClaimed

\* The scenario of the specification: payload 0x6080604052, run id 42.
C2_ExampleReached ==
    /\ mat.pc = "done" /\ mat.err = "ok"
    /\ mat.test_id = <<"4", "2">> /\ mat.deploycode = EXAMPLE_PAYLOAD
    /\ mat.name = Some(<<"Test", "4", "2">>)
    /\ files[<<"C", "4", "2", SUFFIX>>][2] = ContractLine(<<"Test", "4", "2">>)
    /\ files[<<"C", "4", "2", SUFFIX>>][3] = DeployLine(<<"6", "0", "8", "0", "6", "0", "4", "0", "5", "2">>)

\* C3: with a valid template, a malformed payload makes the materialization
\* fail with MalformedPayload, and no file has been created or modified.
C3_MalformedPayloadFails ==
    (/\ mat.pc = "done"
     /\ mat.test_case = UNI
     /\ ~IsHexString(CleanDeploycode(mat.deploycode)))
        => (mat.err = "MalformedPayload" /\ files = InitFiles)

\* Whatever the run identifier, a malformed payload ends in a failure that
\* has written nothing.
C3_NothingWritten ==
    (mat.pc = "done" /\ ~IsHexString(CleanDeploycode(mat.deploycode)))
        => (mat.err # "ok" /\ mat.path = None /\ files = InitFiles)

(***************************************************************************)
(* Claims on the extractor (SpecExt).                                      *)
(***************************************************************************)
LinesWith(lines, marker) == {i \in 1..Len(lines) : Contains(lines[i], marker)}

UpperChar(c) ==
    CASE c = "a" -> "A" [] c = "b" -> "B" [] c = "c" -> "C" [] c = "d" -> "D"
      [] c = "e" -> "E" [] c = "f" -> "F" [] c = "x" -> "X" [] OTHER -> c

UpperLetters == {"A", "B", "C", "D", "E", "F", "X"}

EqualUpToCase(a, b) == Len(a) = Len(b) /\ \A i \in 1..Len(a) : UpperChar(a[i]) = UpperChar(b[i])

\* C5: a lookup that follows a save of the same chain and of an address equal
\* up to letter case returns the value saved, and every row is keyed by a
\* lowercased address.
C5_PutThenGet ==
    /\ \A k \in DOMAIN db : \A i \in 1..Len(k[1]) : k[1][i] \notin UpperLetters
    /\ (cache.put # None /\ cache.get # None) =>
          ((/\ cache.get[1].chain_id = cache.put[1].chain_id
            /\ EqualUpToCase(cache.get[1].address, cache.put[1].address))
              => cache.get[1].result = Some(cache.put[1].code))

\* saved as aB, looked up as Ab
C5_Witness ==
    /\ cache.put # None /\ cache.get # None
    /\ cache.put[1].address = <<"a", "B">> /\ cache.put[1].code = CODE_6F
    /\ cache.get[1].address = <<"A", "b">> /\ cache.get[1].chain_id = cache.put[1].chain_id
    /\ cache.get[1].result = Some(CODE_6F)

(***************************************************************************)
(* Claims on the resolution services (SpecResolve).                        *)
(***************************************************************************)
\* a creation code without its 0x or 0X
WithoutPrefix(c) ==
    IF Len(c) >= 2 /\ c[1] = "0" /\ c[2] \in {"x", "X"} THEN SubSeq(c, 3, Len(c)) ELSE c

\* the items of an explorer answer that carry a creation code for the address
ItemsFor(items, address) ==
    {i \in 1..Len(items) : /\ items[i].contractAddress # <<>>
                           /\ items[i].creationBytecode # <<>>
                           /\ EqualUpToCase(items[i].contractAddress, address)}

Max(S) == CHOOSE x \in S : \A y \in S : x >= y

\* what an explorer answer holds for the address: the code of its last item
AnsweredFor(items, address) ==
    IF ItemsFor(items, address) = {} THEN None
    ELSE Some(WithoutPrefix(items[Max(ItemsFor(items, address))].creationBytecode))

\* the value a successful remote fetch delivered for the call's address
FetchedValue(r) ==
    IF r.svc = "node" THEN Some(WithoutPrefix(r.answer[1]))
    ELSE AnsweredFor(r.answer[1], r.address)

\* C6: a call that finds a row for its address and chain returns the row's
\* value and issues no remote request.
C6_HitIssuesNoRequest ==
    \A p \in Procs :
        (res[p].pc \in {"attempt", "done"} /\ res[p].svc # "batch" /\ res[p].cached # None)
            => (/\ res[p].pc = "done"
                /\ res[p].requests = 0
                /\ res[p].result = res[p].cached)

\* The same for the rows that hold a non-empty creation code.
C6_HoldsForNonEmptyRows ==
    \A p \in Procs :
        (res[p].pc \in {"attempt", "done"} /\ res[p].svc # "batch" /\ Truthy(res[p].cached))
            => (/\ res[p].pc = "done"
                /\ res[p].requests = 0
                /\ res[p].result = res[p].cached)

\* C7: a call that missed the cache and whose remote fetch delivered v for its
\* address returns v, and the table holds v for the address and the chain
\* when it returns.
C7_WriteThrough ==
    \A p \in Procs :
        (/\ res[p].pc = "done" /\ res[p].svc # "batch"
         /\ ~res[p].hit /\ res[p].succeeded
         /\ FetchedValue(res[p]) # None)
            => (/\ res[p].result = FetchedValue(res[p])
                /\ get_creation_code_from_db(db, res[p].address, res[p].chain_id)
                      = FetchedValue(res[p]))

\* a node call that fetched 6F on its second attempt
C7_Witness ==
    \E p \in Procs :
        /\ res[p].pc = "done" /\ res[p].svc = "node" /\ ~res[p].hit
        /\ res[p].succeeded /\ res[p].requests = 2
        /\ res[p].result = Some(CODE_6F)
        /\ get_creation_code_from_db(db, res[p].address, res[p].chain_id) = Some(CODE_6F)

C8_WitnessExhausted ==
    \E p \in Procs :
        /\ res[p].pc = "done" /\ res[p].svc = "batch" /\ ~res[p].succeeded
        /\ res[p].requests = 10
        /\ res[p].mapping = Some(AllAbsent(res[p].batch))

\* C9: the transaction-lookup resolver issues one lookup per attempt; it
\* returns the creation code of the first lookup that succeeds, which comes at
\* the fifth lookup at the latest, and after five failures it returns absent.
C9_NodeRetry ==
    \A p \in Procs :
        res[p].svc = "node" =>
            /\ res[p].pc = "attempt" =>
                  /\ res[p].requests = res[p].failures
                  /\ res[p].requests = res[p].attempt - 1
                  /\ res[p].requests < 5
            /\ (res[p].pc = "done" /\ ~res[p].hit /\ res[p].chain_id \in CHAIN_RPC_MAP) =>
                  IF res[p].succeeded
                  THEN /\ res[p].requests = res[p].failures + 1
                       /\ res[p].requests <= 5
                       /\ res[p].result = Some(WithoutPrefix(res[p].answer[1]))
                  ELSE /\ res[p].requests = 5
                       /\ res[p].failures = 5
                       /\ res[p].result = None

\* a lookup that succeeded at the fifth attempt
C9_Witness ==
    \E p \in Procs :
        /\ res[p].pc = "done" /\ res[p].svc = "node" /\ res[p].succeeded
        /\ res[p].requests = 5 /\ res[p].failures = 4
        /\ res[p].result = Some(CODE_AB)

\* a lookup given up after five failures
C9_WitnessExhausted ==
    \E p \in Procs :
        /\ res[p].pc = "done" /\ res[p].svc = "node" /\ ~res[p].succeeded
        /\ res[p].requests = 5 /\ res[p].result = None

(***************************************************************************)
(* Claims on concurrent requests (SpecApi).                                *)
(***************************************************************************)
\* the requests of w which has got as far as materializing its instance
Materialized(w) == req[w].temp_file # None

\* C1: whatever the interleaving of two requests whose run identifiers differ,
\* their instance paths C<r>_test.t.sol differ, their contract names Test<r>
\* differ, the instance file of each declares its own contract,
\* and neither request has written or deleted the instance file of the other.
C1_DistinctRunsDisjoint ==
    \A w1 \in Workers, w2 \in Workers :
        (/\ w1 # w2
         /\ req[w1].pc # "idle" /\ req[w2].pc # "idle"
         /\ req[w1].test_id # req[w2].test_id) =>
            /\ InstancePath(req[w1].test_id) # InstancePath(req[w2].test_id)
            /\ NewContractName(req[w1].test_id) # NewContractName(req[w2].test_id)
            /\ Materialized(w1) =>
                  /\ req[w1].temp_file = Some(<<"C">> \o req[w1].test_id \o <<"_test.t.sol">>)
                  /\ req[w1].contract_name = Some(<<"Test">> \o req[w1].test_id)
                  /\ req[w1].wrote = {req[w1].temp_file[1]}
                  /\ req[w1].deleted \subseteq {req[w1].temp_file[1]}
            /\ (Materialized(w1) /\ Materialized(w2)) =>
                  /\ req[w1].temp_file # req[w2].temp_file
                  /\ req[w1].contract_name # req[w2].contract_name
                  /\ req[w2].temp_file[1] \notin (req[w1].wrote \cup req[w1].deleted)
            /\ (Materialized(w1) /\ Exists(files, req[w1].temp_file[1])) =>
                  extract_test_contract_name(files[req[w1].temp_file[1]])
                        = req[w1].contract_name
            /\ ~Materialized(w1) => (req[w1].wrote = {} /\ req[w1].deleted = {})

\* one request has deleted its instance while the instance of the other,
\* materialized under another identifier, is still being analysed
C1_Witness ==
    /\ req[1].pc = "done" /\ req[1].deleted = {InstancePath(<<"0", "_", "1">>)}
    /\ req[2].pc = "analyze" /\ req[2].test_id = ID_1
    /\ Exists(files, InstancePath(ID_1))
    /\ ~Exists(files, InstancePath(<<"0", "_", "1">>))

(***************************************************************************)
(* Claims on the orchestrator (SpecRun).                                   *)
(***************************************************************************)
\* the build of r ended with a non-zero status and an error text without the
\* instance's file name
BuildFailedElsewhere(r) ==
    /\ r.build # None
    /\ r.build[1].kind = "exit" /\ r.build[1].rc # 0
    /\ ~IsInfix(r.temp_file[1], r.build[1].stderr)

\* C10: when the build phase exits non-zero and its error text does not
\* contain the instance's file name, the analyze phase is invoked next, and
\* the response is the one the analyze phase alone decides: success exactly
\* when halmos exits with 0, the extracted report of halmos as the output.
C10_AnalyzeDecides ==
    \A w \in Workers :
        BuildFailedElsewhere(req[w]) =>
            \/ req[w].pc = "analyze" /\ req[w].resp = None /\ req[w].run = None
            \/ /\ req[w].pc \in {"finally", "done"}
               /\ req[w].run # None /\ req[w].resp # None
               /\ req[w].resp[1].status = 200
               /\ req[w].resp[1].success
                    = (req[w].run[1].kind = "exit" /\ req[w].run[1].rc = 0)
               /\ req[w].resp[1].message # "build_failed"
               /\ req[w].resp[1].output
                    = IF req[w].run[1].kind = "exit"
                      THEN Some(format_halmos_output(req[w].run[1].stdout \o req[w].run[1].stderr))
                      ELSE None

\* a build that failed naming another file, followed by an analysis that passed
C10_Witness ==
    /\ req[1].pc = "done"
    /\ BuildFailedElsewhere(req[1])
    /\ req[1].build[1].stderr # <<>>
    /\ req[1].run # None /\ req[1].run[1].kind = "exit" /\ req[1].run[1].rc = 0
    /\ req[1].resp[1].success

\* the build of r ended with a non-zero status and an error text that has
\* the instance's file name in it
BuildFailedHere(r) ==
    /\ r.build # None
    /\ r.build[1].kind = "exit" /\ r.build[1].rc # 0
    /\ IsInfix(r.temp_file[1], r.build[1].stderr)

\* C11: when the build phase exits non-zero and its error text has the
\* instance's own file name in it, the run ends unsuccessful as a build
\* failure, the output is the build's stdout followed by its stderr, and the
\* analyze phase is not invoked.
C11_BuildFailureStops ==
    \A w \in Workers :
        BuildFailedHere(req[w]) =>
            /\ req[w].pc \in {"finally", "done"}
            /\ req[w].run = None
            /\ req[w].resp # None
            /\ req[w].resp[1].status = 200
            /\ ~req[w].resp[1].success
            /\ req[w].resp[1].message = "build_failed"
            /\ req[w].resp[1].output = Some(req[w].build[1].stdout \o req[w].build[1].stderr)

\* a build failure that names C1_test.t.sol, answered
C11_Witness ==
    /\ req[1].pc = "done" /\ req[1].test_id = ID_1
    /\ BuildFailedHere(req[1])
    /\ req[1].build[1].stderr = <<"e">> \o InstancePath(ID_1)
    /\ req[1].resp[1].output = Some(<<"o", "e", "C", "1", "_test.t.sol">>)

C13_TimeoutAndMissingTool ==
    \A w \in Workers :
        /\ (req[w].build # None /\ req[w].build[1].kind \in {"timeout", "not_found"}) =>
              /\ req[w].run = None
              /\ req[w].pc \in {"finally", "done"}
              /\ req[w].resp # None
              /\ ~req[w].resp[1].success
              /\ req[w].resp[1].output = None
              /\ req[w].resp[1].message
                    = (IF req[w].build[1].kind = "timeout" THEN "timeout" ELSE "tool_not_found")
        /\ (req[w].run # None /\ req[w].run[1].kind \in {"timeout", "not_found"}) =>
              /\ req[w].resp # None
              /\ ~req[w].resp[1].success
              /\ req[w].resp[1].output = None
              /\ req[w].resp[1].message
                    = (IF req[w].run[1].kind = "timeout" THEN "timeout" ELSE "tool_not_found")

\* the build timed out and the request was answered
C13_Witness ==
    /\ req[1].pc = "done" /\ req[1].build # None
    /\ req[1].build[1].kind = "timeout"
    /\ req[1].resp[1].message = "timeout"

\* halmos timed out after a build that passed
C13_WitnessAnalyze ==
    /\ req[1].pc = "done" /\ req[1].run # None
    /\ req[1].run[1].kind = "timeout"
    /\ req[1].resp[1].message = "timeout"

C14_WitnessRetained ==
    /\ req[1].pc = "done" /\ req[1].debug /\ Materialized(1)
    /\ req[1].deleted = {}
    /\ Exists(files, InstancePath(req[1].test_id))

(***************************************************************************)
(* Claims on the batch driver (SpecBatch, SpecBatchFair).                  *)
(***************************************************************************)
\* the steps logged for target i
StepsOf(i) == {k \in 1..Len(bat.log) : bat.log[k][2] = i}
\* the targets the loop has taken up, and those it has finished
TakenUp == IF bat.pc \in {"idle", "import_error"} THEN 0 ELSE bat.idx
Finished == Len(bat.codes)

\* C15: the steps of a batch run come target by target in the order of the
\* input list: the run starts by resolving target 1, a resolve is followed by
\* the skip or the execute of the same target, an execute by the persist of
\* the same target, and only a skip or a persist of target i is followed by a
\* step of another target, which is the resolve of target i + 1.
C15_OneTargetAtATime ==
    /\ bat.log # <<>> => bat.log[1] = <<"resolve", 1>>
    /\ \A k \in 1..Len(bat.log) : bat.log[k][2] \in 1..Len(bat.targets)
    /\ \A k \in 1..(Len(bat.log) - 1) :
          LET e == bat.log[k]
              n == bat.log[k + 1]
          IN  CASE e[1] = "resolve" -> n[2] = e[2] /\ n[1] \in {"skip", "execute"}
                [] e[1] = "execute" -> n = <<"persist", e[2]>>
                [] OTHER -> n = <<"resolve", e[2] + 1>>
    /\ bat.pc \in {"resolve", "skip", "execute", "persist"} =>
          (\A k \in 1..Len(bat.log) : bat.log[k][2] <= bat.idx)

\* a run of two targets: the first skipped, the second executed and persisted
C15_Witness ==
    /\ bat.pc = "done"
    /\ bat.log = <<<<"resolve", 1>>, <<"skip", 1>>, <<"resolve", 2>>,
                   <<"execute", 2>>, <<"persist", 2>>>>

\* C16: a target whose creation code resolved to absent is not executed; its
\* failure record is persisted and the run goes on with the next target.
C16_AbsentIsRecordedAndSkipped ==
    /\ bat.pc = "skip" => bat.creation_code = None
    /\ bat.pc \in {"execute", "persist"} => bat.creation_code # None
    /\ \A i \in 1..Len(bat.codes) :
          bat.codes[i] = None =>
              /\ bat.results[i] = UNRESOLVED
              /\ \A k \in StepsOf(i) : bat.log[k][1] \in {"resolve", "skip"}
              /\ \E k \in StepsOf(i) : bat.log[k][1] = "skip"
    /\ (bat.log # <<>> /\ bat.log[Len(bat.log)][1] = "skip") =>
          LET i == bat.log[Len(bat.log)][2]
          IN  /\ ResultFileName(bat.targets[i]) \in DOMAIN bat.records
              /\ bat.records[ResultFileName(bat.targets[i])]
                    = <<[section |-> "address", text |-> Some(bat.targets[i]), response |-> None],
                        [section |-> "response", text |-> None, response |-> Some(UNRESOLVED)]>>
              /\ IF i < Len(bat.targets) THEN bat.pc = "resolve" /\ bat.idx = i + 1
                 ELSE bat.pc = "done"

\* the first of two targets was absent and skipped, the second is being resolved
C16_Witness ==
    /\ bat.pc = "resolve" /\ bat.idx = 2
    /\ bat.codes = <<None>>
    /\ bat.log = <<<<"resolve", 1>>, <<"skip", 1>>>>

\* C17: a batch run that has started on its targets reaches its end with every
\* target of the list handled, whatever became of the single targets.
C17_BatchCompletes ==
    (bat.pc \in {"resolve", "skip", "execute", "persist"})
        ~> (bat.pc = "done" /\ Len(bat.codes) = Len(bat.targets))

\* a run has ended after an unresolved target and a request that timed out
C17_Witness ==
    /\ bat.pc = "done" /\ Len(bat.targets) = 2
    /\ bat.codes[1] = None
    /\ bat.results[2].message = "request_timeout"

\* the sections of a result file
SectionsOf(file, kind) == {k \in 1..Len(bat.records[file]) : bat.records[file][k].section = kind}

\* C18: after a batch run there is one result record per target of the list,
\* and the record of a resolved target holds the response and the creation
\* code that was resolved.
C18_RecordPerTargetWithCode ==
    bat.pc = "done" =>
        /\ Cardinality(DOMAIN bat.records) = Len(bat.targets)
        /\ \A i \in 1..Len(bat.targets) :
              /\ ResultFileName(bat.targets[i]) \in DOMAIN bat.records
              /\ bat.codes[i] # None =>
                    LET file == ResultFileName(bat.targets[i])
                    IN  /\ \E k \in SectionsOf(file, "response") :
                              bat.records[file][k].response = Some(bat.results[i])
                        /\ \E k \in SectionsOf(file, "creation_code") :
                              bat.records[file][k].text = bat.codes[i]

\* what does hold: every target has a result file, and that file holds the
\* response of the last target of the list written under its name
C18_LastResponsePerFile ==
    bat.pc = "done" =>
        \A i \in 1..Len(bat.targets) :
            LET file == ResultFileName(bat.targets[i])
                last == Max({j \in 1..Len(bat.targets) : ResultFileName(bat.targets[j]) = file})
            IN  /\ file \in DOMAIN bat.records
                /\ \E k \in SectionsOf(file, "response") :
                      bat.records[file][k].response = Some(bat.results[last])

\* C19: during a run succeeded <= resolved <= targets taken up <= total, and
\* at its end resolved is the number of targets whose creation code was not
\* absent and succeeded the number of executed targets whose response
\* reported success.
C19_CountersOrdered ==
    /\ bat.success_test_count <= bat.success_get_count
    /\ bat.success_get_count <= TakenUp
    /\ TakenUp <= Len(bat.targets)
    /\ bat.pc = "done" =>
          /\ bat.success_get_count = Cardinality({i \in 1..Len(bat.codes) : bat.codes[i] # None})
          /\ bat.success_test_count
                = Cardinality({i \in 1..Len(bat.codes) :
                                  bat.codes[i] # None /\ bat.results[i].success})

\* a run of two resolved targets of which one passed
C19_Witness ==
    /\ bat.pc = "done" /\ Len(bat.targets) = 2
    /\ bat.success_get_count = 2 /\ bat.success_test_count = 1
    /\ ~bat.results[1].success /\ bat.results[2].success

(***************************************************************************)
(* Claims on the failures of the resolution services (SpecResolve).        *)
(***************************************************************************)
\* C20: no failure of a remote request leaves a resolver as an exception:
\* a transport error, a timeout, a malformed response, a non-success status,
\* a transaction that is no deployment and an empty creation code are all
\* retried, and a call that ends without a cached or fetched value returns
\* absent, for every address of a batch.
C20_FailuresEndAbsent ==
    \A p \in Procs :
        /\ res[p].pc # "raised" /\ res[p].raised = ""
        /\ (res[p].pc = "attempt" /\ res[p].failures > 0) => res[p].last_error # ""
        /\ (res[p].pc = "done" /\ ~res[p].hit /\ ~res[p].succeeded) =>
              /\ res[p].result = None
              /\ res[p].svc = "batch" => res[p].mapping = Some(AllAbsent(res[p].batch))
              /\ (res[p].svc = "explorer" \/ res[p].svc = "batch") =>
                    res[p].failures = MAX_EXPLORER_RETRIES /\ res[p].last_error # ""
              /\ (res[p].svc = "node" /\ res[p].chain_id \in CHAIN_RPC_MAP) =>
                    res[p].failures = MAX_NODE_RETRIES /\ res[p].last_error # ""

\* a node lookup given up after a transaction that is no deployment
C20_Witness ==
    \E p \in Procs :
        /\ res[p].pc = "done" /\ res[p].svc = "node" /\ ~res[p].succeeded
        /\ res[p].last_error = "NotAContractDeployment"
        /\ res[p].failures = 5 /\ res[p].result = None

\* an explorer lookup given up after a malformed response
C20_WitnessExplorer ==
    \E p \in Procs :
        /\ res[p].pc = "done" /\ res[p].svc = "explorer" /\ ~res[p].succeeded
        /\ res[p].last_error = "other_error"
        /\ res[p].failures = 10 /\ res[p].result = None

(***************************************************************************)
(* Claims on the failures of the materializer (SpecMat, SpecPayload).      *)
(***************************************************************************)
\* C21: the materialization fails with TemplateNotFound when there is no
\* template file of the name, with the missing-pattern error when the
\* template declares no contract Test<Identifier> or, the payload being
\* well-formed, has no placeholder line; no file is written in these cases.
C21_TemplateFailures ==
    mat.pc = "done" =>
        /\ mat.test_case = MISSING => (mat.err = "TemplateNotFound" /\ files = InitFiles)
        /\ mat.test_case = NODECL => (mat.err = "ContractNameMissing" /\ files = InitFiles)
        /\ (mat.test_case = NOPH /\ IsHexString(CleanDeploycode(mat.deploycode))) =>
              (mat.err = "PlaceholderMissing" /\ files = InitFiles)

\* The same for run identifiers that hold no backslash.
C21_HoldsWithoutBackslash ==
    (mat.pc = "done" /\ \A i \in 1..Len(mat.test_id) : mat.test_id[i] # "\\") =>
        /\ mat.test_case = MISSING => (mat.err = "TemplateNotFound" /\ files = InitFiles)
        /\ mat.test_case = NODECL => (mat.err = "ContractNameMissing" /\ files = InitFiles)
        /\ (mat.test_case = NOPH /\ IsHexString(CleanDeploycode(mat.deploycode))) =>
              (mat.err = "PlaceholderMissing" /\ files = InitFiles)

\* Whatever the inputs, a template that is missing or lacks a pattern ends in
\* a failure that has written nothing.
C21_NothingWritten ==
    (mat.pc = "done" /\ mat.test_case \in {MISSING, NODECL, NOPH}) =>
        (mat.err # "ok" /\ mat.path = None /\ files = InitFiles)

\* the payload as the claim cleans it: the ends stripped, an 0x prefix cut
\* off, every whitespace character removed
ClaimedClean(payload) ==
    LET stripped == Strip(payload)
        unprefixed == IF StartsWith(stripped, "0", "x")
                      THEN SubSeq(stripped, 3, Len(stripped)) ELSE stripped
    IN  SelectSeq(unprefixed, IsNotWhitespace)

\* C22: the materialization fails with MalformedPayload exactly when the
\* payload, its optional 0x prefix and all its whitespace and newlines
\* removed, holds a character that is no hexadecimal digit, and succeeds for
\* every other payload.
C22_MalformedExactly ==
    mat.pc = "done" =>
        IF IsHexString(ClaimedClean(mat.deploycode)) THEN mat.err = "ok"
        ELSE mat.err = "MalformedPayload"

\* The same for payloads that hold no tab between their ends.
C22_HoldsWithoutInnerTab ==
    (mat.pc = "done" /\ \A i \in 1..Len(Strip(mat.deploycode)) : Strip(mat.deploycode)[i] # "\t") =>
        IF IsHexString(ClaimedClean(mat.deploycode)) THEN mat.err = "ok"
        ELSE mat.err = "MalformedPayload"

(***************************************************************************)
(* Claims on the table of the cache (SpecCache).                           *)
(***************************************************************************)
\* the rows other than the one of key k are the same in the two tables
SameElsewhere(before, after, k) ==
    /\ DOMAIN after \ {k} = DOMAIN before \ {k}
    /\ \A j \in DOMAIN before \ {k} : after[j] = before[j]

\* C23: a put is an upsert. The table never holds two rows whose chain is
\* the same and whose addresses are equal up to case; a step that puts a
\* value leaves the row of the lowercased address and chain with the value
\* just put and every other row as it was; a step that gets changes nothing.
C23_PutIsUpsert ==
    /\ [](\A j, k \in DOMAIN db :
            (j[2] = k[2] /\ EqualUpToCase(j[1], k[1])) => j = k)
    /\ [][/\ cache'.get = None =>
               LET p == cache'.put[1]
                   k == RowKey(p.address, p.chain_id)
               IN  /\ k \in DOMAIN db'
                   /\ db'[k] = p.code
                   /\ SameElsewhere(db, db', k)
          /\ cache'.get # None => db' = db]_vars

\* the row of (ab, 1) held 6F and now holds ab, next to another row
C23_Witness ==
    /\ cache.put # None
    /\ cache.put[1].prior = Some(CODE_6F)
    /\ cache.put[1].code = CODE_AB
    /\ Cardinality(DOMAIN db) >= 2
    /\ db[RowKey(cache.put[1].address, cache.put[1].chain_id)] = CODE_AB

(***************************************************************************)
(* Claims on two resolutions of one key at a time (SpecRace).              *)
(***************************************************************************)
\* the processes that fetched a value themselves and returned it
Fetchers == {p \in RaceProcs : res[p].pc = "done" /\ ~res[p].hit /\ Truthy(res[p].result)}

\* C24: when two resolutions of the same address and chain run at the same
\* time, the table holds at most one row, that of the key, its value is
\* whole and is the one that one of the two fetched, it is there once a
\* resolution has fetched, and what a resolution reads from the table is
\* nothing or the whole value the other one fetched.
C24_OneWholeRecord ==
    /\ DOMAIN db \subseteq {RowKey(AB, 1)}
    /\ \A k \in DOMAIN db : \E p \in Fetchers : db[k] = res[p].result[1]
    /\ Fetchers # {} => RowKey(AB, 1) \in DOMAIN db
    /\ \A p \in RaceProcs :
          res[p].cached # None =>
              \E q \in Fetchers \ {p} : res[p].cached = res[q].result

\* both resolutions missed the table and fetched, the one 6F and the other
\* ab; the row holds the value of one of them
C24_Witness ==
    /\ Fetchers = RaceProcs
    /\ res[1].address # res[2].address
    /\ res[1].result = Some(CODE_6F) /\ res[2].result = Some(CODE_AB)
    /\ db[RowKey(AB, 1)] = CODE_6F

(***************************************************************************)
(* Claims on the run identifiers of concurrent requests (SpecApi).         *)
(***************************************************************************)
\* the request of w has materialized its instance and has not yet answered
Active(w) == Materialized(w) /\ req[w].pc \notin {"idle", "done"}

\* C25: no two instances that are active at the same time in the working
\* tree share their run identifier.
C25_NoSharedRunId ==
    \A w1 \in Workers, w2 \in Workers :
        (w1 # w2 /\ Active(w1) /\ Active(w2)) => req[w1].test_id # req[w2].test_id

\* C25, amended: two instances that are active at the same time and whose
\* run identifiers were both generated by the endpoint have different run
\* identifiers, different paths and different contract names.
C25_GeneratedIdsDistinct ==
    \A w1 \in Workers, w2 \in Workers :
        (/\ w1 # w2 /\ Active(w1) /\ Active(w2)
         /\ req[w1].given = None /\ req[w2].given = None) =>
            /\ req[w1].test_id # req[w2].test_id
            /\ req[w1].temp_file # req[w2].temp_file
            /\ req[w1].contract_name # req[w2].contract_name

\* two active instances whose identifiers were generated in the same second
C25_Witness ==
    /\ Active(1) /\ Active(2)
    /\ req[1].given = None /\ req[2].given = None
    /\ req[1].test_id[1] = req[2].test_id[1]
    /\ Exists(files, req[1].temp_file[1]) /\ Exists(files, req[2].temp_file[1])

(***************************************************************************)
(* Claims on the stored creation codes and the retry loops (SpecResolve).  *)
(***************************************************************************)
LowerHexDigits == {"0", "1", "2", "3", "4", "5", "6", "7", "8", "9", "a", "b", "c", "d", "e", "f"}

\* C26: every creation code in the table is without 0x prefix and holds
\* lowercase hexadecimal digits only.
C26_StoredCodesCanonical ==
    \A k \in DOMAIN db :
        /\ ~StartsWith(db[k], "0", "x")
        /\ \A i \in 1..Len(db[k]) : db[k][i] \in LowerHexDigits

\* What the code does keep: no stored value starts with the lowercase 0x of
\* the answers.
C26_AnswerPrefixCut ==
    \A k \in DOMAIN db : ~StartsWith(db[k], "0", "x")

(***************************************************************************)
(* Claims on the ways the batch controller ends early (SpecBatch).         *)
(***************************************************************************)
Aborted == bat.pc \in {"aborted", "import_error"}

\* C27: the batch controller aborts before its first target only, and only
\* because the API credential or the endpoint of the chain is missing; no
\* target has then been resolved, executed or recorded.
C27_AbortsOnlyForConfiguration ==
    Aborted =>
        /\ bat.cause \in {"no_api_key", "unknown_chain"}
        /\ bat.idx = 0 /\ bat.log = <<>> /\ bat.records = <<>> /\ db = <<>>

\* Whatever its cause, an abort comes before the first target and leaves
\* nothing resolved, executed or recorded.
C27_AbortsBeforeFirstTarget ==
    Aborted => (bat.idx = 0 /\ bat.log = <<>> /\ bat.records = <<>> /\ db = <<>>)

(***************************************************************************)
(* Claims on the order of the phases (SpecRun).                            *)
(***************************************************************************)
\* C28: in one run of the orchestrator the build is invoked at most once and
\* then the analysis at most once, neither is invoked again, and the
\* analysis is invoked only when the build has returned (with a result the
\* orchestrator does not take for a compilation failure).
C28_PhasesOnceInOrder ==
    LET r == req[1]
    IN  /\ r.calls \in {<<>>, <<"build">>, <<"build", "analyze">>}
        /\ r.pc = "analyze" => r.calls = <<"build">>
        /\ (r.pc = "analyze" \/ r.run # None) =>
              /\ r.build # None
              /\ r.build[1].kind = "exit"
              /\ ~BuildIsFatal(r.temp_file[1], r.build[1])
        /\ r.run # None => r.calls = <<"build", "analyze">>
        /\ (r.pc \in {"finally", "done"} /\ r.build # None /\ r.run = None) =>
              r.calls = (IF r.build[1].kind = "no_workdir" THEN <<>> ELSE <<"build">>)

\* a run whose build failed and whose analysis was not invoked
C28_Witness ==
    /\ req[1].pc = "done"
    /\ req[1].calls = <<"build">>
    /\ req[1].build # None /\ req[1].build[1].kind = "exit" /\ req[1].build[1].rc = 1
    /\ req[1].run = None

\* a run of both phases whose analysis failed
C28_WitnessBoth ==
    /\ req[1].pc = "done"
    /\ req[1].calls = <<"build", "analyze">>
    /\ req[1].run # None /\ req[1].run[1].kind = "exit" /\ req[1].run[1].rc = 1

\* the sleeps of r are as the claim has them: one after every failed attempt
\* but the last
BacksOff(r) ==
    /\ r.pc = "attempt" => r.sleeps = r.failures
    /\ (r.pc = "done" /\ r.succeeded) => r.sleeps = r.failures
    /\ (r.pc = "done" /\ ~r.succeeded /\ r.failures > 0) => r.sleeps = r.failures - 1

\* C29: in both resolvers every failed attempt but the last is followed by
\* the delay before the next attempt, and the last attempt by none.
C29_BackoffBetweenAttempts ==
    \A p \in Procs : BacksOff(res[p])

\* The same for the explorer resolver alone.
C29_ExplorerBacksOff ==
    \A p \in Procs : res[p].svc \in {"explorer", "batch"} => BacksOff(res[p])

\* the step is an explorer request of p that was answered with status "1"
\* and message "OK"
OkStatusStep(p) ==
    /\ res[p].pc = "attempt" /\ res[p].svc \in {"explorer", "batch"}
    /\ res'[p].requests = res[p].requests + 1
    /\ res'[p].succeeded \/ res'[p].last_error = "AttributeError"

\* the requested addresses for which the answer holds no item with both
\* address and creation code are absent in the mapping, and their rows in the
\* table are as they were
MissingAreAbsent(p) ==
    \A i \in 1..Len(res[p].batch) :
        LET address == res[p].batch[i]
        IN  ItemsFor(res'[p].answer[1], address) = {} =>
                /\ res'[p].mapping # None
                /\ res'[p].mapping[1][Lower(address)] = None
                /\ get_creation_code_from_db(db', address, res[p].chain_id)
                      = get_creation_code_from_db(db, address, res[p].chain_id)

\* C30: when the explorer answers a request with success status, the call
\* returns with this request, without another attempt, every requested
\* address that is missing from the answer or incomplete in it is absent in
\* the mapping returned, and nothing is written to the table for it.
C30_MissingIsAbsent ==
    [][\A p \in Procs :
          OkStatusStep(p) =>
              /\ res'[p].pc = "done"
              /\ res'[p].attempt = res[p].attempt
              /\ MissingAreAbsent(p)]_vars

\* The same for the answers none of whose items has null for its address.
C30_HoldsWithoutNull ==
    [][\A p \in Procs :
          (/\ OkStatusStep(p)
           /\ \A j \in 1..Len(res'[p].answer[1]) :
                 res'[p].answer[1][j].contractAddress # JSON_NULL) =>
              /\ res'[p].pc = "done"
              /\ res'[p].attempt = res[p].attempt
              /\ MissingAreAbsent(p)]_vars

(***************************************************************************)
(* Claims on the run identifiers of a batch run (SpecBatch).               *)
(***************************************************************************)
IsExecute(e) == e[1] = "execute"

\* C31: the run identifiers a batch run has passed to the execution are
\* 1, 2, 3, ... in the order of the targets executed: pairwise distinct,
\* increasing with the position of the target, and none is used up by a
\* target that was skipped.
C31_TestIdsIncrease ==
    LET executed == SelectSeq(bat.log, IsExecute)
    IN  /\ Len(bat.test_ids) = Len(executed)
        /\ \A j \in 1..Len(bat.test_ids) : bat.test_ids[j] = j
        /\ \A j, k \in 1..Len(executed) :
              j < k => (executed[j][2] < executed[k][2] /\ bat.test_ids[j] < bat.test_ids[k])
        /\ bat.pc \in {"resolve", "skip", "execute"} =>
              bat.test_id_counter = Len(bat.test_ids) + 1

\* two targets executed under the identifiers 1 and 2
C31_Witness ==
    /\ bat.pc = "done"
    /\ bat.test_ids = <<1, 2>>
    /\ SelectSeq(bat.log, IsExecute) = <<<<"execute", 1>>, <<"execute", 2>>>>

\* the first target skipped, the second executed under the identifier 1
C31_WitnessSkipped ==
    /\ bat.pc = "done"
    /\ bat.test_ids = <<1>>
    /\ bat.log = <<<<"resolve", 1>>, <<"skip", 1>>, <<"resolve", 2>>,
                   <<"execute", 2>>, <<"persist", 2>>>>

(***************************************************************************)
(* Claims on the template files (SpecTemplates).                           *)
(***************************************************************************)
\* C32: whatever the requests, their template names and run identifiers,
\* every template file is there with the contents it had.
C32_TemplatesUnchanged ==
    \A p \in DOMAIN TemplateFiles : Exists(files, p) /\ files[p] = TemplateFiles[p]

\* The same for the templates whose name does not begin with C.
C32_HoldsForOtherNames ==
    \A p \in DOMAIN TemplateFiles :
        p[1] # "C" => (Exists(files, p) /\ files[p] = TemplateFiles[p])

(***************************************************************************)
(* Claims on the text the extractor returns (SpecAnsi, SpecExt).           *)
(***************************************************************************)
\* s holds ESC [ <digits and semicolons> m
HasAnsi(s) ==
    \E i \in 1..(Len(s) - 1) : s[i] = ESC /\ s[i + 1] = "[" /\ AnsiEnd(s, i + 2) # 0

\* C33: whatever the raw log, the text extracted holds no escape sequence
\* ESC [ <digits and semicolons> m and no carriage return.
C33_NoAnsiNoCarriageReturn ==
    ext.pc = "done" =>
        /\ ~HasAnsi(ext.result)
        /\ \A i \in 1..Len(ext.result) : ext.result[i] # "\r"

\* The text extracted holds no carriage return.
C33_NoCarriageReturn ==
    ext.pc = "done" => \A i \in 1..Len(ext.result) : ext.result[i] # "\r"

(***************************************************************************)
(* Claims on empty creation codes (SpecBatch).                             *)
(***************************************************************************)
\* C34: a target is counted as resolved and executed with a non-empty
\* creation code only, and the table never holds an empty creation code.
C34_EmptyIsAbsent ==
    /\ bat.pc \in {"execute", "persist"} => Truthy(bat.creation_code)
    /\ \A i \in 1..Len(bat.codes) : bat.codes[i] # None => bat.codes[i][1] # <<>>
    /\ \A k \in DOMAIN db : db[k] # <<>>

\* What the driver does keep: a target resolved to None is never executed.
C34_NoneIsNotExecuted ==
    /\ bat.pc \in {"execute", "persist"} => bat.creation_code # None
    /\ bat.success_get_count = Cardinality({i \in 1..Len(bat.codes) : bat.codes[i] # None})
                                  + (IF bat.pc \in {"execute", "persist"} THEN 1 ELSE 0)

(***************************************************************************)
(* Claims on two batch runs at a time (SpecBatches).                       *)
(***************************************************************************)
\* the run identifiers the run d has sent to the server
SentBy(d) == {<<DigitOf(bat[d].test_ids[i])>> : i \in 1..Len(bat[d].test_ids)}

\* C35: two batch runs that use the server at the same time never send the
\* same run identifier, and so never have the same instance path or contract
\* name materialized.
C35_BatchIdsUnique ==
    \A d \in Drivers, e \in Drivers :
        d # e =>
            \A i \in SentBy(d), j \in SentBy(e) :
                /\ i # j
                /\ InstancePath(i) # InstancePath(j)
                /\ NewContractName(i) # NewContractName(j)

\* What the one server process does keep: it works on the request of one run
\* at a time, so at most one instance file is there at any time, and the
\* identifiers of each run by itself are 1, 2, ...
C35_OneInstanceAtATime ==
    /\ Cardinality(DOMAIN files \ DOMAIN InitFiles) <= 1
    /\ Cardinality({d \in Drivers : bat[d].pc = "posted"}) <= 1
    /\ \A d \in Drivers : \A i \in 1..Len(bat[d].test_ids) : bat[d].test_ids[i] = i

====
